---- MODULE Spec2Model ----
(***************************************************************************)
(* Model of the native-audio voice coach server:                           *)
(*   NativeAudioWebSocketHandler   (websocket_handler_native.py)           *)
(*   GeminiNativeAudioService      (gemini_native_audio_service.py)        *)
(*   NativeAudioVoiceCoachServer   (voice_coach_server_native.py)          *)
(* and of the older WebSocketHandler (websocket_handler.py), whose         *)
(* sessions are kept in active_sessions.                                   *)
(* One asyncio task per client connection.  A step of the model is the     *)
(* code a task runs between two suspension points (awaits that really      *)
(* suspend: the upstream connect, handshake, HTTP call, recv and close).   *)
(***************************************************************************)
EXTENDS Integers, Sequences, FiniteSets, TLC

\* ---------------------------------------------------------------- bounds
NumClients == 2
MaxMsgs == 2

Clients == 1..NumClients

\* kinds of inbound frame a client can send:
\*   voice_text    voice_data with a transcript and no audio payload
\*   voice_audio   voice_data with an audio payload and a transcript
\*   audio_chunk   audio_stream with a chunk, final unset
\*   audio_final   audio_stream with a chunk, final set
MsgKinds == {"ping", "voice_text", "voice_audio", "audio_chunk", "audio_final"}

NoSocket == 0

\* the count of frames read is kept modulo PartsMod
PartsMod == 2

VARIABLES
    pc,                 \* position of each client's handle_client task
    clientSock,         \* downstream socket of each client: none / open / closed
    inbox,              \* messages received from the client, not yet handled
    cur,                \* message the handler took last: [idx, kind]
    frames,             \* frames written to each client, in order
    closing,            \* upstream socket a client's disconnect() is closing
    gemini_connected,   \* handler.gemini_connected
    active_clients,     \* handler.active_clients
    client_sessions,    \* handler.client_sessions (counters per client)
    server_stats,       \* handler.server_stats
    is_connected,       \* service.is_connected
    use_http_fallback,  \* service.use_http_fallback
    websocket,          \* service.websocket (NoSocket is None)
    upOpen,             \* upstream sockets opened and not yet closed
    nextSock,           \* number of upstream sockets opened so far
    connectCalls,       \* history: invocations of service.connect()
    disconnectCalls,    \* history: invocations of service.disconnect()
    wsSends,            \* history: request sends on the streaming socket
    sent,               \* history: number of messages each client has sent
    connectFailed,      \* history: clients whose connect() returned False
    serverPc,           \* position of the server task
    listening,          \* the listening transport is open
    shutdownClients,    \* history: clients still connected when the server closes
    active_sessions,    \* WebSocketHandler.active_sessions: message_count per client
    partsRead,          \* history: non-final upstream frames each client's
                        \* exchanges have read, modulo PartsMod
    call                \* a call of one of the service's functions on its
                        \* own: its arguments and, once it returned, its result

cvars == <<pc, clientSock, inbox, cur, frames, closing>>
hvars == <<gemini_connected, active_clients, client_sessions, server_stats>>
svars == <<is_connected, use_http_fallback, websocket, upOpen, nextSock>>
histvars == <<connectCalls, disconnectCalls, wsSends, sent, connectFailed>>
srvvars == <<serverPc, listening, shutdownClients>>
lvars == <<active_sessions, partsRead, call>>
vars == <<cvars, hvars, svars, histvars, srvvars, lvars>>

NoMsg == [idx |-> 0, kind |-> "none"]

OkResult == [err |-> FALSE, hasAudio |-> FALSE]
AudioResult == [err |-> FALSE, hasAudio |-> TRUE]
ErrResult == [err |-> TRUE, hasAudio |-> FALSE]

NewSession == [message_count |-> 0, audio_messages |-> 0, coaching_responses |-> 0]

\* no function is called on its own
NoCall == [fn |-> "none"]

\* the handler and the service after construction, no client connected
InitSessions ==
    /\ pc = [c \in Clients |-> "idle"]
    /\ clientSock = [c \in Clients |-> "none"]
    /\ inbox = [c \in Clients |-> <<>>]
    /\ cur = [c \in Clients |-> NoMsg]
    /\ frames = [c \in Clients |-> <<>>]
    /\ closing = [c \in Clients |-> NoSocket]
    /\ gemini_connected = FALSE
    /\ active_clients = {}
    /\ client_sessions = [c \in {} |-> NewSession]
    /\ server_stats = [total_connections |-> 0, active_sessions |-> 0,
                       total_audio_messages |-> 0, total_coaching_responses |-> 0]
    /\ is_connected = FALSE
    /\ use_http_fallback = FALSE
    /\ websocket = NoSocket
    /\ upOpen = {}
    /\ nextSock = 0
    /\ connectCalls = 0
    /\ disconnectCalls = 0
    /\ wsSends = 0
    /\ sent = [c \in Clients |-> 0]
    /\ connectFailed = {}
    /\ shutdownClients = {}
    /\ active_sessions = [c \in {} |-> 0]
    /\ partsRead = [c \in Clients |-> 0]

\* the server after websockets.serve has bound the port
InitServer ==
    /\ InitSessions
    /\ serverPc = "running"
    /\ listening = TRUE

Init == InitServer /\ call = NoCall

\* ------------------------------------------------------------- helpers

\* an outbound frame: its type, the arrival number of the message it
\* answers (0 for a frame that answers none) and, for an error frame, the
\* text of data.message
Frame(type, idx, text) == [type |-> type, msg |-> idx, text |-> text]

\* _send_message: the frame is written if the client's socket is open; a
\* closed socket raises ConnectionClosed, which is swallowed.
SendText(fr, c, type, idx, text) ==
    IF clientSock[c] = "open"
    THEN [fr EXCEPT ![c] = Append(@, Frame(type, idx, text))]
    ELSE fr

SendFrame(fr, c, type, idx) == SendText(fr, c, type, idx, "")

\* _send_error
SendError(fr, c, idx, text) == SendText(fr, c, "error", idx, text)

\* handle_client line 65
ConnectFailedText == "Failed to connect to Gemini Native Audio API"

FrameTypes(c) == {frames[c][i].type : i \in 1..Len(frames[c])}

\* sequence q without its i-th element
RemoveAt(q, i) == [j \in 1..(Len(q) - 1) |-> IF j < i THEN q[j] ELSE q[j + 1]]

\* function f without the key c
Without(f, c) == [x \in (DOMAIN f) \ {c} |-> f[x]]

\* ------------------------------------------- handle_client: registration

\* handle_client line 61: the first-client test
NeedsConnect == ~gemini_connected

\* AfterConnect without the `return` of line 66: the client whose connect()
\* failed is sent the error frame and then accepted like any other
AfterConnect_NoReturn(c, connected) ==
    /\ gemini_connected' = TRUE
    /\ frames' = SendFrame(IF connected THEN frames
                                         ELSE SendError(frames, c, 0, ConnectFailedText),
                           c, "connected", 0)
    /\ pc' = [pc EXCEPT ![c] = "ready"]
    /\ connectFailed' = IF connected THEN connectFailed ELSE connectFailed \cup {c}

\* handle_client lines 64-79, run when connect() returns `connected`
AfterConnect(c, connected) ==
    IF ~connected
    THEN /\ frames' = SendError(frames, c, 0, ConnectFailedText)
         /\ pc' = [pc EXCEPT ![c] = "rejected"]
         /\ connectFailed' = connectFailed \cup {c}
         /\ UNCHANGED gemini_connected
    ELSE /\ gemini_connected' = TRUE
         /\ frames' = SendFrame(frames, c, "connected", 0)
         /\ pc' = [pc EXCEPT ![c] = "ready"]
         /\ UNCHANGED connectFailed

\* handle_client lines 41-70 up to the first suspension
Arrive(c) ==
    /\ pc[c] = "idle"
    /\ listening
    /\ clientSock' = [clientSock EXCEPT ![c] = "open"]
    /\ active_clients' = active_clients \cup {c}
    /\ server_stats' = [server_stats EXCEPT
                          !.total_connections = @ + 1,
                          !.active_sessions = Cardinality(active_clients \cup {c})]
    /\ client_sessions' = [x \in (DOMAIN client_sessions) \cup {c} |->
                             IF x = c THEN NewSession ELSE client_sessions[x]]
    /\ IF NeedsConnect
       THEN /\ connectCalls' = connectCalls + 1
            /\ pc' = [pc EXCEPT ![c] = "connect_ws"]
            /\ UNCHANGED frames
       ELSE /\ frames' = [frames EXCEPT ![c] = Append(@, Frame("connected", 0, ""))]
            /\ pc' = [pc EXCEPT ![c] = "ready"]
            /\ UNCHANGED connectCalls
    /\ UNCHANGED <<lvars, inbox, cur, closing, gemini_connected, svars,
                   disconnectCalls, wsSends, sent, connectFailed, srvvars>>

\* ------------------------------------------------- service.connect()

\* connect lines 113-119: the except branch, up to the HTTP probe's await
Fallback(c) ==
    /\ use_http_fallback' = TRUE
    /\ is_connected' = TRUE
    /\ pc' = [pc EXCEPT ![c] = "connect_http"]

\* connect lines 69-98: websockets.connect returned a socket, setup sent
ConnectWsOpen(c) ==
    /\ pc[c] = "connect_ws"
    /\ nextSock' = nextSock + 1
    /\ websocket' = nextSock + 1
    /\ upOpen' = upOpen \cup {nextSock + 1}
    /\ pc' = [pc EXCEPT ![c] = "connect_setup"]
    /\ UNCHANGED <<lvars, clientSock, inbox, cur, frames, closing, hvars,
                   is_connected, use_http_fallback, histvars, srvvars>>

\* connect lines 69-75 raising: no socket was opened
ConnectWsFail(c) ==
    /\ pc[c] = "connect_ws"
    /\ Fallback(c)
    /\ UNCHANGED <<lvars, clientSock, inbox, cur, frames, closing, hvars,
                   websocket, upOpen, nextSock, histvars, srvvars>>

\* connect lines 101-108: setupComplete received, connect() returns True
ConnectSetupComplete(c) ==
    /\ pc[c] = "connect_setup"
    /\ is_connected' = TRUE
    /\ use_http_fallback' = FALSE
    /\ AfterConnect(c, TRUE)
    /\ UNCHANGED <<lvars, clientSock, inbox, cur, closing, active_clients, client_sessions,
                   server_stats, websocket, upOpen, nextSock,
                   connectCalls, disconnectCalls, wsSends, sent, srvvars>>

\* connect lines 101-119: timeout, another reply, or recv raising
ConnectSetupFail(c) ==
    /\ pc[c] = "connect_setup"
    /\ Fallback(c)
    /\ UNCHANGED <<lvars, clientSock, inbox, cur, frames, closing, hvars,
                   websocket, upOpen, nextSock, histvars, srvvars>>

\* connect lines 140-157: the probe answers 200 (ok) or fails
ConnectHttp(c, ok) ==
    /\ pc[c] = "connect_http"
    /\ AfterConnect(c, ok)
    /\ UNCHANGED <<lvars, clientSock, inbox, cur, closing, active_clients, client_sessions,
                   server_stats, svars,
                   connectCalls, disconnectCalls, wsSends, sent, srvvars>>

\* ------------------------------------------------ _cleanup_client

\* _cleanup_client line 328: the last-client test, after the removal
NeedsDisconnect(remaining) == remaining = {} /\ gemini_connected

\* the handler has left its loop: rejected, or the socket closed while it
\* waited for the next message
Leaving(c) ==
    \/ pc[c] = "rejected"
    \/ pc[c] = "ready" /\ clientSock[c] = "closed"

\* disconnect lines 569-585 without the handling of exceptions: an error of
\* close() leaves the call before lines 581-582 run
disconnect_Unguarded(conn, ws, open, raises) ==
    IF ws # NoSocket /\ raises
    THEN [is_connected |-> conn, websocket |-> ws, upOpen |-> open,
          closes |-> 1, raised |-> TRUE]
    ELSE [is_connected |-> FALSE, websocket |-> NoSocket,
          upOpen |-> open \ {ws},
          closes |-> IF ws # NoSocket THEN 1 ELSE 0, raised |-> FALSE]

\* disconnect lines 569-585, called with is_connected = conn, websocket = ws
\* and the sockets of `open` open upstream; `raises` says whether close()
\* raises.  The result is the service state the call ends in, the number of
\* close() calls it made (line 574 or 576: one whenever a socket is held) and
\* whether an exception leaves the call (lines 578 and 584 catch them)
disconnect(conn, ws, open, raises) ==
    [is_connected |-> FALSE,
     websocket |-> NoSocket,
     upOpen |-> IF ws # NoSocket /\ ~raises THEN open \ {ws} ELSE open,
     closes |-> IF ws # NoSocket THEN 1 ELSE 0,
     raised |-> FALSE]

\* _cleanup_client lines 313-331 up to the suspension in disconnect();
\* disconnect() with no socket held does not suspend
Cleanup(c) ==
    /\ Leaving(c)
    /\ active_clients' = active_clients \ {c}
    /\ client_sessions' = Without(client_sessions, c)
    /\ server_stats' = [server_stats EXCEPT
                          !.active_sessions = Cardinality(active_clients \ {c})]
    /\ IF NeedsDisconnect(active_clients \ {c})
       THEN /\ disconnectCalls' = disconnectCalls + 1
            /\ IF websocket # NoSocket
               THEN /\ closing' = [closing EXCEPT ![c] = websocket]
                    /\ pc' = [pc EXCEPT ![c] = "disconnecting"]
                    /\ UNCHANGED <<clientSock, gemini_connected, is_connected, websocket>>
               ELSE /\ LET r == disconnect(is_connected, websocket, upOpen, FALSE)
                       IN /\ is_connected' = r.is_connected
                          /\ websocket' = r.websocket
                          /\ gemini_connected' = (r.raised /\ gemini_connected)
                    /\ pc' = [pc EXCEPT ![c] = "done"]
                    /\ clientSock' = [clientSock EXCEPT ![c] = "closed"]
                    /\ UNCHANGED closing
       ELSE /\ pc' = [pc EXCEPT ![c] = "done"]
            /\ clientSock' = [clientSock EXCEPT ![c] = "closed"]
            /\ UNCHANGED <<disconnectCalls, closing, gemini_connected,
                           is_connected, websocket>>
    /\ UNCHANGED <<lvars, inbox, cur, frames, use_http_fallback, upOpen, nextSock,
                   connectCalls, wsSends, sent, connectFailed, srvvars>>

\* disconnect from the return of close() (lines 574-582) and _cleanup_client
\* line 331 (skipped when disconnect() raises: line 337 logs the error)
DisconnectReturn(c, raises) ==
    /\ pc[c] = "disconnecting"
    /\ LET r == disconnect(is_connected, closing[c], upOpen, raises)
       IN /\ upOpen' = r.upOpen
          /\ is_connected' = r.is_connected
          /\ websocket' = IF r.raised THEN websocket ELSE r.websocket
          /\ gemini_connected' = (r.raised /\ gemini_connected)
    /\ closing' = [closing EXCEPT ![c] = NoSocket]
    /\ pc' = [pc EXCEPT ![c] = "done"]
    /\ clientSock' = [clientSock EXCEPT ![c] = "closed"]
    /\ UNCHANGED <<lvars, inbox, cur, frames, active_clients, client_sessions, server_stats,
                   use_http_fallback, nextSock, histvars, srvvars>>

\* close() returned
DisconnectDone(c) == DisconnectReturn(c, FALSE)

\* close() raised (the socket was already closed or the network failed): the
\* socket is not closed by this call
DisconnectCloseRaised(c) == DisconnectReturn(c, TRUE)

\* the client closes its socket (or the network does)
ClientClose(c) ==
    /\ clientSock[c] = "open"
    /\ clientSock' = [clientSock EXCEPT ![c] = "closed"]
    /\ UNCHANGED <<lvars, pc, inbox, cur, frames, closing, hvars, svars, histvars, srvvars>>

\* ------------------------------------------------ the message loop

RECURSIVE SumTo(_, _)
SumTo(f, n) == IF n = 0 THEN 0 ELSE f[n] + SumTo(f, n - 1)
TotalSent == SumTo(sent, NumClients)

\* the client sends a frame; the library queues it for the handler
ClientSend(c, k) ==
    /\ clientSock[c] = "open"
    /\ TotalSent < MaxMsgs
    /\ sent' = [sent EXCEPT ![c] = @ + 1]
    /\ inbox' = [inbox EXCEPT ![c] = Append(@, [idx |-> sent[c] + 1, kind |-> k])]
    /\ UNCHANGED <<lvars, pc, clientSock, cur, frames, closing, hvars, svars,
                   connectCalls, disconnectCalls, wsSends, connectFailed, srvvars>>

\* NextInboxIndex taking the newest queued message instead of the oldest
NextInboxIndex_Newest(q) == Len(q)

\* `async for message in websocket` (line 82): the oldest queued message
NextInboxIndex(q) == 1

\* the loop takes a message only between two _handle_message calls
CanTake(c) == pc[c] = "ready" /\ inbox[c] # <<>>

\* Touch without the increment of lines 107-109
Touch_NoCount(cs, c) == cs

\* _handle_message lines 107-109
Touch(cs, c) ==
    IF c \in DOMAIN cs THEN [cs EXCEPT ![c].message_count = @ + 1] ELSE cs

\* _handle_voice_data lines 147-149
CountAudio(cs, c) ==
    IF c \in DOMAIN cs THEN [cs EXCEPT ![c].audio_messages = @ + 1] ELSE cs

\* _handle_voice_data lines 192-194
CountCoaching(cs, c) ==
    IF c \in DOMAIN cs THEN [cs EXCEPT ![c].coaching_responses = @ + 1] ELSE cs

\* the hasAudioResponse field of a textFeedback frame
\* (_handle_voice_data line 205), kept in the frame's text
AudioFlag(hasAudio) == IF hasAudio THEN "hasAudioResponse" ELSE ""

\* _handle_voice_data lines 196-213: textFeedback, then the audio frame
FeedbackFrames(fr, c, idx, res) ==
    LET f1 == SendText(fr, c, "textFeedback", idx, AudioFlag(res.hasAudio))
    IN  IF res.hasAudio THEN SendFrame(f1, c, "audioResponse", idx) ELSE f1

\* the text of the error frame for a failed upstream call:
\* _handle_voice_data line 188 prefixes the upstream's error,
\* _handle_audio_stream line 233 passes it on as it is
UpstreamErrorText(kind) ==
    IF kind = "voice_audio" THEN "AI processing failed" ELSE "upstream error"

\* What the handler does with the result `res` of the upstream call for
\* the message (kind, idx), starting from frames fr, sessions cs, stats ss:
\*   voice_text   _handle_voice_data lines 175-213 (the rebuilt response
\*                carries no "error" key)
\*   voice_audio  process_audio_message lines 318-337, _handle_voice_data 186-213
\*   audio_*      _handle_audio_stream lines 232-242
Finish(c, kind, idx, res, fr, cs, ss) ==
    /\ pc' = [pc EXCEPT ![c] = "ready"]
    /\ CASE kind = "voice_text" ->
              /\ frames' = FeedbackFrames(fr, c, idx, res)
              /\ client_sessions' = CountCoaching(cs, c)
              /\ server_stats' = [ss EXCEPT !.total_coaching_responses = @ + 1]
         [] kind = "voice_audio" /\ ~res.err ->
              /\ frames' = FeedbackFrames(fr, c, idx, res)
              /\ client_sessions' = CountCoaching(cs, c)
              /\ server_stats' = [ss EXCEPT !.total_coaching_responses = @ + 1]
         [] kind = "audio_final" /\ ~res.err ->
              /\ frames' = SendFrame(fr, c, "streamResponse", idx)
              /\ client_sessions' = cs
              /\ server_stats' = ss
         [] kind = "audio_chunk" /\ ~res.err ->
              /\ frames' = fr
              /\ client_sessions' = cs
              /\ server_stats' = ss
         [] OTHER ->
              /\ frames' = SendError(fr, c, idx, UpstreamErrorText(kind))
              /\ client_sessions' = cs
              /\ server_stats' = ss

\* send_text_message lines 200-207 and 234, 240-244
TextRoutes ==
    IF ~is_connected THEN {"not_connected"}
    ELSE IF use_http_fallback \/ websocket = NoSocket THEN {"http"}
    ELSE {"ws", "ws_fail_http"}

\* process_audio_message lines 313-316
AudioMsgRoutes == IF use_http_fallback THEN {"http"} ELSE TextRoutes

\* send_audio_chunk lines 161-163 and 185, 194-196
ChunkRoutes ==
    IF ~is_connected \/ websocket = NoSocket THEN {"not_connected"}
    ELSE {"ws", "ws_error"}

Routes(kind) ==
    CASE kind = "voice_text" -> TextRoutes
      [] kind = "voice_audio" -> AudioMsgRoutes
      [] OTHER -> ChunkRoutes

\* StartUpstream with a failed send on the streaming socket answered as an
\* error, without the except branch of send_text_message lines 240-244
StartUpstream_NoFallback(c, kind, idx, route, fr, cs, ss) ==
    CASE route = "not_connected" ->
           /\ Finish(c, kind, idx, ErrResult, fr, cs, ss)
           /\ UNCHANGED <<use_http_fallback, wsSends>>
      [] route = "http" ->
           /\ pc' = [pc EXCEPT ![c] = "http_wait"]
           /\ frames' = fr /\ client_sessions' = cs /\ server_stats' = ss
           /\ UNCHANGED <<use_http_fallback, wsSends>>
      [] route = "ws_fail_http" ->
           /\ Finish(c, kind, idx, ErrResult, fr, cs, ss)
           /\ UNCHANGED <<use_http_fallback, wsSends>>
      [] route = "ws_error" ->
           /\ Finish(c, kind, idx, ErrResult, fr, cs, ss)
           /\ UNCHANGED <<use_http_fallback, wsSends>>
      [] route = "ws" ->
           /\ wsSends' = wsSends + 1
           /\ UNCHANGED use_http_fallback
           /\ IF kind = "audio_chunk"
              THEN Finish(c, kind, idx, OkResult, fr, cs, ss)
              ELSE /\ pc' = [pc EXCEPT ![c] = "ws_wait"]
                   /\ frames' = fr /\ client_sessions' = cs /\ server_stats' = ss

\* the upstream call of the message (kind, idx) up to its first suspension
StartUpstream(c, kind, idx, route, fr, cs, ss) ==
    CASE route = "not_connected" ->
           /\ Finish(c, kind, idx, ErrResult, fr, cs, ss)
           /\ UNCHANGED <<use_http_fallback, wsSends>>
      [] route = "http" ->
           /\ pc' = [pc EXCEPT ![c] = "http_wait"]
           /\ frames' = fr /\ client_sessions' = cs /\ server_stats' = ss
           /\ UNCHANGED <<use_http_fallback, wsSends>>
      [] route = "ws_fail_http" ->
           /\ use_http_fallback' = TRUE
           /\ pc' = [pc EXCEPT ![c] = "http_wait"]
           /\ frames' = fr /\ client_sessions' = cs /\ server_stats' = ss
           /\ UNCHANGED wsSends
      [] route = "ws_error" ->
           /\ Finish(c, kind, idx, ErrResult, fr, cs, ss)
           /\ UNCHANGED <<use_http_fallback, wsSends>>
      [] route = "ws" ->
           /\ wsSends' = wsSends + 1
           /\ UNCHANGED use_http_fallback
           /\ IF kind = "audio_chunk"
              THEN Finish(c, kind, idx, OkResult, fr, cs, ss)
              ELSE /\ pc' = [pc EXCEPT ![c] = "ws_wait"]
                   /\ frames' = fr /\ client_sessions' = cs /\ server_stats' = ss

\* HandlePing with the ping branch of lines 120-121 sending nothing
HandlePing_Silent(c) ==
    /\ CanTake(c)
    /\ LET m == inbox[c][NextInboxIndex(inbox[c])]
       IN  /\ m.kind = "ping"
           /\ inbox' = [inbox EXCEPT ![c] = RemoveAt(@, NextInboxIndex(@))]
           /\ cur' = [cur EXCEPT ![c] = m]
           /\ client_sessions' = Touch(client_sessions, c)
    /\ UNCHANGED <<lvars, pc, clientSock, frames, closing, gemini_connected,
                   active_clients, server_stats, svars, histvars, srvvars>>

\* handle_client lines 82-84 and _handle_message lines 101-124 for a ping
HandlePing(c) ==
    /\ CanTake(c)
    /\ LET m == inbox[c][NextInboxIndex(inbox[c])]
       IN  /\ m.kind = "ping"
           /\ inbox' = [inbox EXCEPT ![c] = RemoveAt(@, NextInboxIndex(@))]
           /\ cur' = [cur EXCEPT ![c] = m]
           /\ client_sessions' = Touch(client_sessions, c)
           /\ frames' = SendFrame(frames, c, "pong", m.idx)
    /\ UNCHANGED <<lvars, pc, clientSock, closing, gemini_connected, active_clients,
                   server_stats, svars, histvars, srvvars>>

\* _handle_message and _handle_voice_data lines 137-175 up to the upstream
\* call's first suspension
HandleVoice(c, route) ==
    /\ CanTake(c)
    /\ LET m == inbox[c][NextInboxIndex(inbox[c])]
       IN  /\ m.kind \in {"voice_text", "voice_audio"}
           /\ route \in Routes(m.kind)
           /\ inbox' = [inbox EXCEPT ![c] = RemoveAt(@, NextInboxIndex(@))]
           /\ cur' = [cur EXCEPT ![c] = m]
           /\ StartUpstream(c, m.kind, m.idx, route,
                  SendFrame(frames, c, "processingStarted", m.idx),
                  CountAudio(Touch(client_sessions, c), c),
                  [server_stats EXCEPT !.total_audio_messages = @ + 1])
    /\ UNCHANGED <<lvars, clientSock, closing, gemini_connected, active_clients,
                   is_connected, websocket, upOpen, nextSock,
                   connectCalls, disconnectCalls, sent, connectFailed, srvvars>>

\* _handle_message and _handle_audio_stream lines 222-230
HandleAudioStream(c, route) ==
    /\ CanTake(c)
    /\ LET m == inbox[c][NextInboxIndex(inbox[c])]
       IN  /\ m.kind \in {"audio_chunk", "audio_final"}
           /\ route \in Routes(m.kind)
           /\ inbox' = [inbox EXCEPT ![c] = RemoveAt(@, NextInboxIndex(@))]
           /\ cur' = [cur EXCEPT ![c] = m]
           /\ StartUpstream(c, m.kind, m.idx, route, frames,
                  Touch(client_sessions, c), server_stats)
    /\ UNCHANGED <<lvars, clientSock, closing, gemini_connected, active_clients,
                   is_connected, websocket, upOpen, nextSock,
                   connectCalls, disconnectCalls, sent, connectFailed, srvvars>>

\* ---------------------------------- messages answered without a call

\* inbound frames that are refused:
\*   voice_empty    voice_data with no audio payload and a missing or
\*                  blank transcript
\*   bad_json       text that is not JSON
\*   unknown_type   a JSON object whose type is none the handler routes
\*   no_type        a JSON object without a type
InvalidKinds == {"voice_empty", "bad_json", "unknown_type", "no_type"}

\* inbound frames whose handling raises an exception:
\*   not_object            JSON that is not an object: data.get raises
\*                         (_handle_message line 102)
\*   voice_bad_transcript  voice_data whose transcribedText is not a
\*                         string: strip raises (line 138)
\*   voice_bad_audio       voice_data whose audio is a number: len raises
\*                         (line 151)
\*   stream_bad_chunk      audio_stream whose chunk is not base64:
\*                         b64decode raises (line 229)
\*   session_bad_customer  start_pitch_session whose customer is not an
\*                         object: customer.get raises (line 257)
RaisingKinds == {"not_object", "voice_bad_transcript", "voice_bad_audio",
                 "stream_bad_chunk", "session_bad_customer"}

\* json.loads (line 101) returns an object
IsObject(kind) == kind \notin {"bad_json", "not_object"}

\* data.get("type", "unknown"), line 102
TypeOf(kind) ==
    CASE kind \in {"voice_text", "voice_audio", "voice_empty",
                   "voice_bad_transcript", "voice_bad_audio"} -> "voice_data"
      [] kind \in {"audio_chunk", "audio_final", "stream_bad_chunk"} -> "audio_stream"
      [] kind \in {"session_start", "session_bare", "session_bad_customer"}
           -> "start_pitch_session"
      [] kind = "ping" -> "ping"
      [] kind = "unknown_type" -> "text_message"
      [] OTHER -> "unknown"

\* the types _handle_message routes, lines 114-120
RoutedTypes == {"voice_data", "start_pitch_session", "audio_stream", "ping"}

\* error texts: _handle_message lines 124 and 128, _handle_voice_data line 143
UnknownTypeText(type) == "Unknown message type: " \o type
InvalidJsonText == "Invalid JSON format"
NoPayloadText == "No audio or transcription provided"

\* the message `async for` hands to _handle_message next
NextMsg(c) == inbox[c][NextInboxIndex(inbox[c])]

\* handle_client lines 82-84: the message leaves the queue
Take(c) ==
    /\ inbox' = [inbox EXCEPT ![c] = RemoveAt(@, NextInboxIndex(@))]
    /\ cur' = [cur EXCEPT ![c] = NextMsg(c)]

\* HandleBadJson without the except branch of lines 126-128: the error
\* reaches handle_client lines 91-93 and ends the loop
HandleBadJson_Escapes(c) ==
    /\ CanTake(c)
    /\ NextMsg(c).kind = "bad_json"
    /\ Take(c)
    /\ pc' = [pc EXCEPT ![c] = "rejected"]
    /\ frames' = SendError(frames, c, NextMsg(c).idx, "Connection error")
    /\ UNCHANGED <<clientSock, closing, hvars, svars, histvars, srvvars, lvars>>

\* _handle_message lines 101 and 126-128: json.loads raises JSONDecodeError
HandleBadJson(c) ==
    /\ CanTake(c)
    /\ NextMsg(c).kind = "bad_json"
    /\ Take(c)
    /\ frames' = SendError(frames, c, NextMsg(c).idx, InvalidJsonText)
    /\ UNCHANGED <<pc, clientSock, closing, hvars, svars, histvars, srvvars, lvars>>

\* HandleUnknown with the else branch of lines 122-124 only logging
HandleUnknown_LogOnly(c) ==
    /\ CanTake(c)
    /\ IsObject(NextMsg(c).kind)
    /\ TypeOf(NextMsg(c).kind) \notin RoutedTypes
    /\ Take(c)
    /\ client_sessions' = Touch(client_sessions, c)
    /\ UNCHANGED <<pc, clientSock, frames, closing, gemini_connected, active_clients,
                   server_stats, svars, histvars, srvvars, lvars>>

\* _handle_message lines 101-112 and 122-124: no branch takes the type
HandleUnknown(c) ==
    /\ CanTake(c)
    /\ IsObject(NextMsg(c).kind)
    /\ TypeOf(NextMsg(c).kind) \notin RoutedTypes
    /\ Take(c)
    /\ client_sessions' = Touch(client_sessions, c)
    /\ frames' = SendError(frames, c, NextMsg(c).idx,
                           UnknownTypeText(TypeOf(NextMsg(c).kind)))
    /\ UNCHANGED <<pc, clientSock, closing, gemini_connected, active_clients,
                   server_stats, svars, histvars, srvvars, lvars>>

\* HandleVoiceEmpty with the check of line 142 made after the counters
\* and the acknowledgment (after line 157)
HandleVoiceEmpty_LateCheck(c) ==
    /\ CanTake(c)
    /\ NextMsg(c).kind = "voice_empty"
    /\ Take(c)
    /\ client_sessions' = CountAudio(Touch(client_sessions, c), c)
    /\ server_stats' = [server_stats EXCEPT !.total_audio_messages = @ + 1]
    /\ frames' = SendError(SendFrame(frames, c, "processingStarted", NextMsg(c).idx),
                           c, NextMsg(c).idx, NoPayloadText)
    /\ UNCHANGED <<pc, clientSock, closing, gemini_connected, active_clients,
                   svars, histvars, srvvars, lvars>>

\* _handle_message lines 101-115 and _handle_voice_data lines 137-144
HandleVoiceEmpty(c) ==
    /\ CanTake(c)
    /\ NextMsg(c).kind = "voice_empty"
    /\ Take(c)
    /\ client_sessions' = Touch(client_sessions, c)
    /\ frames' = SendError(frames, c, NextMsg(c).idx, NoPayloadText)
    /\ UNCHANGED <<pc, clientSock, closing, gemini_connected, active_clients,
                   server_stats, svars, histvars, srvvars, lvars>>

\* the customer.name and scenario.title of a start_pitch_session message;
\* NoName when the message has no customer or no scenario
\*   session_start   carries both     session_bare   carries neither
NoName == ""
CustomerName(kind) == IF kind = "session_start" THEN "Acme" ELSE NoName
ScenarioTitle(kind) == IF kind = "session_start" THEN "Cold call" ELSE NoName

\* dict.get(key, default)
GetOr(v, default) == IF v = NoName THEN default ELSE v

\* the customer and scenario fields of the sessionStarted frame,
\* _handle_session_start lines 257-258
SessionStartedText(kind) ==
    GetOr(CustomerName(kind), "Unknown") \o " / "
        \o GetOr(ScenarioTitle(kind), "Voice Coaching")

\* HandleSessionStart counting the message as an audio message
HandleSessionStart_Counts(c) ==
    /\ CanTake(c)
    /\ NextMsg(c).kind \in {"session_start", "session_bare"}
    /\ Take(c)
    /\ client_sessions' = CountAudio(Touch(client_sessions, c), c)
    /\ frames' = SendText(frames, c, "sessionStarted", NextMsg(c).idx,
                          SessionStartedText(NextMsg(c).kind))
    /\ UNCHANGED <<pc, clientSock, closing, gemini_connected, active_clients,
                   server_stats, svars, histvars, srvvars, lvars>>

\* _handle_message lines 101-117 and _handle_session_start lines 250-261
HandleSessionStart(c) ==
    /\ CanTake(c)
    /\ NextMsg(c).kind \in {"session_start", "session_bare"}
    /\ Take(c)
    /\ client_sessions' = Touch(client_sessions, c)
    /\ frames' = SendText(frames, c, "sessionStarted", NextMsg(c).idx,
                          SessionStartedText(NextMsg(c).kind))
    /\ UNCHANGED <<pc, clientSock, closing, gemini_connected, active_clients,
                   server_stats, svars, histvars, srvvars, lvars>>

\* the error text of the handler that catches the exception:
\* _handle_message line 131, _handle_voice_data line 217,
\* _handle_audio_stream line 246, _handle_session_start line 267
RaisedText(kind) ==
    CASE kind = "not_object" -> "Processing error"
      [] TypeOf(kind) = "voice_data" -> "Voice processing failed"
      [] TypeOf(kind) = "audio_stream" -> "Stream processing failed"
      [] OTHER -> "Session start failed"

\* HandleRaising with no handler around the message: the exception
\* reaches handle_client lines 91-93 and ends the loop
HandleRaising_Escapes(c) ==
    /\ CanTake(c)
    /\ NextMsg(c).kind \in RaisingKinds
    /\ Take(c)
    /\ pc' = [pc EXCEPT ![c] = "rejected"]
    /\ frames' = SendError(frames, c, NextMsg(c).idx, "Connection error")
    /\ UNCHANGED <<clientSock, closing, hvars, svars, histvars, srvvars, lvars>>

\* _handle_message for a message whose handling raises: the statements
\* before the raise, then the except branch of the innermost handler
\* (lines 129-131, 215-217, 244-246, 265-267)
HandleRaising(c) ==
    /\ CanTake(c)
    /\ NextMsg(c).kind \in RaisingKinds
    /\ Take(c)
    /\ LET k == NextMsg(c).kind
           touched == IF IsObject(k) THEN Touch(client_sessions, c) ELSE client_sessions
       IN  /\ client_sessions' =
                 IF k = "voice_bad_audio" THEN CountAudio(touched, c) ELSE touched
           /\ server_stats' =
                 IF k = "voice_bad_audio"
                 THEN [server_stats EXCEPT !.total_audio_messages = @ + 1]
                 ELSE server_stats
           /\ frames' = SendError(frames, c, NextMsg(c).idx, RaisedText(k))
    /\ UNCHANGED <<pc, clientSock, closing, gemini_connected, active_clients,
                   svars, histvars, srvvars, lvars>>

\* _process_with_http lines 387-433 returning: a reply (ok) or an error
HttpReturn(c, ok) ==
    /\ pc[c] = "http_wait"
    /\ Finish(c, cur[c].kind, cur[c].idx, IF ok THEN OkResult ELSE ErrResult,
              frames, client_sessions, server_stats)
    /\ UNCHANGED <<lvars, clientSock, inbox, cur, closing, gemini_connected, active_clients,
                   svars, histvars, srvvars>>

\* _wait_for_complete_response lines 253-300 returning: the turn is
\* complete (with or without audio), or an error frame, timeout or exception
WsReturn(c, res) ==
    /\ pc[c] = "ws_wait"
    /\ res \in {OkResult, AudioResult, ErrResult}
    /\ Finish(c, cur[c].kind, cur[c].idx, res, frames, client_sessions, server_stats)
    /\ UNCHANGED <<lvars, clientSock, inbox, cur, closing, gemini_connected, active_clients,
                   svars, histvars, srvvars>>

\* _wait_for_complete_response lines 253-277: recv() returned a frame that
\* is neither an error nor marked turnComplete; its parts are collected and
\* the loop calls recv() again, with a new 30 s timeout
WsFrame(c) ==
    /\ pc[c] = "ws_wait"
    /\ partsRead' = [partsRead EXCEPT ![c] = (@ + 1) % PartsMod]
    /\ UNCHANGED <<active_sessions, call, cvars, hvars, svars, histvars, srvvars>>

\* ------------------------- WebSocketHandler (websocket_handler.py)

\* inbound frames modelled for the older handler
LegacyKinds == MsgKinds \cup InvalidKinds \cup {"session_start", "not_object"}

\* error texts: handle_message lines 84 and 87
LegacyInvalidText == "Invalid message format"
LegacyFailedText == "Message processing failed"

\* handle_client lines 31-49: the session is registered and welcomed
handle_client(c) ==
    /\ pc[c] = "idle"
    /\ clientSock' = [clientSock EXCEPT ![c] = "open"]
    /\ active_sessions' = [x \in (DOMAIN active_sessions) \cup {c} |->
                             IF x = c THEN 0 ELSE active_sessions[x]]
    /\ frames' = [frames EXCEPT ![c] = Append(@, Frame("connection", 0, ""))]
    /\ pc' = [pc EXCEPT ![c] = "legacy_ready"]
    /\ UNCHANGED <<inbox, cur, closing, hvars, svars, histvars, srvvars, partsRead, call>>

\* handle_message lines 69-70
LegacyTouch(as, c) ==
    IF c \in DOMAIN as THEN [as EXCEPT ![c] = @ + 1] ELSE as

\* handle_client lines 52-53 and handle_message lines 64-87, with
\* handle_voice_data lines 93-105 up to the call of generate_response and
\* handle_ping.  A voice_data message without a transcript is given the
\* default text (line 97); one with a blank transcript is dropped (line 104).
handle_message(c) ==
    /\ pc[c] = "legacy_ready"
    /\ inbox[c] # <<>>
    /\ NextMsg(c).kind \in LegacyKinds
    /\ Take(c)
    /\ LET k == NextMsg(c).kind
           idx == NextMsg(c).idx
       IN  CASE k = "bad_json" ->
                  /\ frames' = SendError(frames, c, idx, LegacyInvalidText)
                  /\ UNCHANGED <<pc, active_sessions>>
             [] k = "not_object" ->
                  /\ frames' = SendError(frames, c, idx, LegacyFailedText)
                  /\ UNCHANGED <<pc, active_sessions>>
             [] TypeOf(k) = "ping" ->
                  /\ active_sessions' = LegacyTouch(active_sessions, c)
                  /\ frames' = SendFrame(frames, c, "pong", idx)
                  /\ UNCHANGED pc
             [] TypeOf(k) = "voice_data" ->
                  /\ active_sessions' = LegacyTouch(active_sessions, c)
                  /\ \/ pc' = [pc EXCEPT ![c] = "legacy_wait"]
                     \/ k = "voice_empty" /\ UNCHANGED pc
                  /\ UNCHANGED frames
             [] OTHER ->
                  /\ active_sessions' = LegacyTouch(active_sessions, c)
                  /\ UNCHANGED <<pc, frames>>
    /\ UNCHANGED <<clientSock, closing, hvars, svars, histvars, srvvars, partsRead, call>>

\* GeminiService.generate_response (gemini_service.py lines 156-304)
\* returns a text on every path, a placeholder when the request failed;
\* handle_voice_data lines 107-123 then sends both frames
generate_response(c) ==
    /\ pc[c] = "legacy_wait"
    /\ frames' = SendFrame(SendFrame(frames, c, "textFeedback", cur[c].idx),
                           c, "audioResponse", cur[c].idx)
    /\ pc' = [pc EXCEPT ![c] = "legacy_ready"]
    /\ UNCHANGED <<clientSock, inbox, cur, closing, hvars, svars, histvars,
                   srvvars, lvars>>

\* handle_client lines 55-60 and cleanup_session lines 152-162
cleanup_session(c) ==
    /\ pc[c] = "legacy_ready"
    /\ clientSock[c] = "closed"
    /\ active_sessions' = Without(active_sessions, c)
    /\ pc' = [pc EXCEPT ![c] = "done"]
    /\ UNCHANGED <<clientSock, inbox, cur, frames, closing, hvars, svars,
                   histvars, srvvars, partsRead, call>>

\* ------------------------------- replies of the HTTP endpoint

\* what one POST to generateContent ends in: an HTTP status, or the request
\* timing out or raising
HttpStatuses == {"200", "400", "429", "500", "503", "timeout", "raised"}

\* candidates[0].finishReason; "OTHER" is any reason the code does not name
FinishReasons == {"STOP", "SAFETY", "RECITATION", "MAX_TOKENS", "OTHER"}

\* a text is modelled by its length after strip(): nothing, too short to
\* count as content (at most 5 characters), a reply
TextLens == {0, 3, 20}

\* an outcome of the POST: the status, whether the body has a candidate, its
\* finishReason, whether its content has parts, and the text of parts[0]
HttpReplies ==
    [status : HttpStatuses, candidates : BOOLEAN, finishReason : FinishReasons,
     parts : BOOLEAN, text : TextLens]

\* the length of a string synthesized by _get_safe_response or
\* _get_retry_response (gemini_service.py lines 306-324, 381-413): never empty
PlaceholderLen == 60

\* results of the HTTP functions: an error, a model reply of length n, a
\* synthesized placeholder; `calls` counts the POSTs made
ErrorReply(calls) == [err |-> TRUE, text |-> 0, placeholder |-> FALSE, calls |-> calls]
ModelReply(n, calls) == [err |-> FALSE, text |-> n, placeholder |-> FALSE, calls |-> calls]
Placeholder(calls) ==
    [err |-> FALSE, text |-> PlaceholderLen, placeholder |-> TRUE, calls |-> calls]

\* GeminiNativeAudioService._process_with_http lines 387-433
process_with_http(r) ==
    IF r.status \in {"timeout", "raised"} THEN ErrorReply(1)
    ELSE IF r.status # "200" THEN ErrorReply(1)
    ELSE IF ~r.candidates THEN ErrorReply(1)
    ELSE IF r.parts /\ r.text > 0 THEN ModelReply(r.text, 1)
    ELSE ErrorReply(1)

\* the text a reply carries for gemini_service.py: lines 226-233 and 362-365
PartText(r) == IF r.parts THEN r.text ELSE 0

\* GeminiService._retry_with_different_params lines 336-379 given the
\* outcomes rs of the POSTs of the three strategies, after `calls` POSTs
RECURSIVE retry_with_different_params(_, _, _)
retry_with_different_params(rs, i, calls) ==
    IF i > Len(rs) THEN Placeholder(calls)
    ELSE IF rs[i].status = "200" /\ rs[i].candidates /\ PartText(rs[i]) > 5
         THEN ModelReply(PartText(rs[i]), calls + 1)
         ELSE retry_with_different_params(rs, i + 1, calls + 1)

\* GeminiService.generate_response lines 158-304 given the outcome r of its
\* POST and the outcomes rs of the retries.  The pattern of line 252 asks for
\* "text" in double quotes, which str() of a dict does not write, and
\* finds at most the text that was already too short: nothing is extracted.
generate_reply(r, rs) ==
    IF r.status = "timeout" THEN Placeholder(1)
    ELSE IF r.status = "raised" THEN Placeholder(1)
    ELSE IF r.status # "200" THEN Placeholder(1)
    ELSE IF ~r.candidates THEN Placeholder(1)
    ELSE CASE r.finishReason \in {"SAFETY", "RECITATION"} -> Placeholder(1)
           [] r.finishReason = "MAX_TOKENS" ->
                IF PartText(r) > 5 THEN ModelReply(PartText(r), 1)
                ELSE retry_with_different_params(rs, 1, 1)
           [] OTHER ->
                IF PartText(r) > 0 THEN ModelReply(PartText(r), 1) ELSE Placeholder(1)

\* outcomes of the retries' POSTs: a reply, a text too short, no candidate,
\* an overloaded endpoint, an exception
RetryReplies ==
    {[status |-> "200", candidates |-> TRUE, finishReason |-> "STOP",
      parts |-> TRUE, text |-> 20],
     [status |-> "200", candidates |-> TRUE, finishReason |-> "MAX_TOKENS",
      parts |-> TRUE, text |-> 3],
     [status |-> "200", candidates |-> FALSE, finishReason |-> "STOP",
      parts |-> FALSE, text |-> 0],
     [status |-> "503", candidates |-> FALSE, finishReason |-> "STOP",
      parts |-> FALSE, text |-> 0],
     [status |-> "raised", candidates |-> FALSE, finishReason |-> "STOP",
      parts |-> FALSE, text |-> 0]}

\* the strategies of _retry_with_different_params, lines 330-334
NumStrategies == 3

\* _ensure_initialized (lines 29-38) at the start of a request: the service
\* is initialized already; _select_model lists the models and the first
\* test POST selects one (lines 58-108); or the listing and the test POSTs
\* of the six preferred models all fail and it raises (lines 120-154).
\* `calls` counts the upstream calls it makes
ModelSelections ==
    {[done |-> TRUE, selected |-> TRUE, calls |-> 0],
     [done |-> FALSE, selected |-> TRUE, calls |-> 2],
     [done |-> FALSE, selected |-> FALSE, calls |-> 7]}

\* GeminiService.generate_response lines 158-304 with line 162: a failed
\* model selection raises into the handler of lines 302-304
generate_response_lazy(sel, r, rs) ==
    IF ~sel.selected
    THEN [Placeholder(0) EXCEPT !.calls = sel.calls]
    ELSE [generate_reply(r, rs) EXCEPT !.calls = @ + sel.calls]

\* a request of the HTTP path waiting to be made: the outcome of its POST
\* and of the retries' POSTs
InitHttp ==
    /\ InitServer
    /\ call \in [fn : {"request"}, reply : HttpReplies,
                 retries : [1..NumStrategies -> RetryReplies],
                 selection : ModelSelections]

\* the native service makes the request
ProcessWithHttp ==
    /\ call.fn = "request"
    /\ call' = [fn |-> "_process_with_http", reply |-> call.reply,
                retries |-> call.retries, selection |-> call.selection,
                out |-> process_with_http(call.reply)]
    /\ UNCHANGED <<active_sessions, partsRead, cvars, hvars, svars, histvars, srvvars>>

\* the older service makes the request
GenerateResponse ==
    /\ call.fn = "request"
    /\ call' = [fn |-> "generate_response", reply |-> call.reply,
                retries |-> call.retries, selection |-> call.selection,
                out |-> generate_response_lazy(call.selection, call.reply, call.retries)]
    /\ UNCHANGED <<active_sessions, partsRead, cvars, hvars, svars, histvars, srvvars>>

NextHttp == ProcessWithHttp \/ GenerateResponse

SpecHttp == InitHttp /\ [][NextHttp]_vars

\* ------------------------------------- coaching feedback functions

\* _calculate_score lines 492 and 497
SalesKeywords == {"value", "benefit", "solution", "help", "save", "improve", "better"}
PositiveIndicators == {"good", "excellent", "strong", "clear", "confident", "well"}

\* the length of each sales keyword
WordLen(w) ==
    CASE w \in {"help", "save"} -> 4
      [] w = "value" -> 5
      [] w = "better" -> 6
      [] w \in {"benefit", "improve"} -> 7
      [] OTHER -> 8

\* the length of the shortest text containing the keywords ws (no keyword
\* overlaps another)
RECURSIVE MinLen(_)
MinLen(ws) ==
    IF ws = {} THEN 0
    ELSE LET w == CHOOSE x \in ws : TRUE IN WordLen(w) + MinLen(ws \ {w})

\* lengths of transcripts around the thresholds of lines 487 and 489
TranscriptLens == {0, 41, 50, 51, 100, 101, 150}

\* a transcript is modelled by its length and the sales keywords that occur
\* in its lower-cased text; a model reply by the positive indicators that
\* occur in its lower-cased text
Transcripts ==
    {t \in [len : TranscriptLens, words : SUBSET SalesKeywords] : t.len >= MinLen(t.words)}

Min(a, b) == IF a < b THEN a ELSE b
Max(a, b) == IF a > b THEN a ELSE b

\* _calculate_score without the bounds of line 501
calculate_score_Unclamped(t, positives) ==
    LET s0 == 75
        s1 == IF t.len > 50 THEN s0 + 5 ELSE s0
        s2 == IF t.len > 100 THEN s1 + 5 ELSE s1
        s3 == s2 + Min(Cardinality(t.words) * 2, 10)
        s4 == s3 + Min(Cardinality(positives), 5)
    IN  s4

\* _calculate_score with a deduction for a transcript of at most 50
\* characters
calculate_score_ShortPenalty(t, positives) ==
    LET s0 == 75
        s1 == IF t.len > 50 THEN s0 + 5 ELSE s0 - 20
        s2 == IF t.len > 100 THEN s1 + 5 ELSE s1
        s3 == s2 + Min(Cardinality(t.words) * 2, 10)
        s4 == s3 + Min(Cardinality(positives), 5)
    IN  Min(Max(s4, 60), 95)

\* _calculate_score lines 482-501
calculate_score(t, positives) ==
    LET s0 == 75
        s1 == IF t.len > 50 THEN s0 + 5 ELSE s0
        s2 == IF t.len > 100 THEN s1 + 5 ELSE s1
        s3 == s2 + Min(Cardinality(t.words) * 2, 10)
        s4 == s3 + Min(Cardinality(positives), 5)
    IN  Min(Max(s4, 60), 95)

\* a transcript and a model reply to be scored
InitScore ==
    /\ InitServer
    /\ call \in [fn : {"to_score"}, transcript : Transcripts,
                 positives : SUBSET PositiveIndicators]

\* process_audio_message line 325
CalculateScore ==
    /\ call.fn = "to_score"
    /\ call' = [fn |-> "_calculate_score", transcript |-> call.transcript,
                positives |-> call.positives,
                out |-> calculate_score(call.transcript, call.positives)]
    /\ UNCHANGED <<active_sessions, partsRead, cvars, hvars, svars, histvars, srvvars>>

SpecScore == InitScore /\ [][CalculateScore]_vars

\* the words _extract_improvements and _extract_achievements look for; a
\* model reply is modelled by the set of them that occur in its lower-cased
\* text
ReplyWords ==
    {"pace", "slow", "fast", "confident", "conviction", "example", "specific",
     "value", "benefit", "clear", "good", "well", "engaging"}

\* `entry` if one of the words `keys` occurs in the reply, appended to l
AppendIf(l, ws, keys, entry) == IF ws \cap keys # {} THEN Append(l, entry) ELSE l

\* l[:3]
FirstThree(l) == SubSeq(l, 1, Min(3, Len(l)))

\* _extract_improvements without the slice of line 532
extract_improvements_All(ws) ==
    LET l1 == AppendIf(<<>>, ws, {"pace", "slow", "fast"},
                       "Adjust your speaking pace for better clarity")
        l2 == AppendIf(l1, ws, {"confident", "conviction"},
                       "Speak with more confidence and conviction")
        l3 == AppendIf(l2, ws, {"example", "specific"},
                       "Add specific examples to strengthen your message")
        l4 == AppendIf(l3, ws, {"value", "benefit"},
                       "Emphasize the key benefits and value proposition")
    IN  IF l4 = <<>>
        THEN <<"Practice varying your tone for emphasis",
               "Focus on clear articulation of key points">>
        ELSE l4

\* _extract_improvements lines 506-532
extract_improvements(ws) ==
    LET l1 == AppendIf(<<>>, ws, {"pace", "slow", "fast"},
                       "Adjust your speaking pace for better clarity")
        l2 == AppendIf(l1, ws, {"confident", "conviction"},
                       "Speak with more confidence and conviction")
        l3 == AppendIf(l2, ws, {"example", "specific"},
                       "Add specific examples to strengthen your message")
        l4 == AppendIf(l3, ws, {"value", "benefit"},
                       "Emphasize the key benefits and value proposition")
        l5 == IF l4 = <<>>
              THEN <<"Practice varying your tone for emphasis",
                     "Focus on clear articulation of key points">>
              ELSE l4
    IN  FirstThree(l5)

\* _extract_achievements lines 534-556
extract_achievements(ws) ==
    LET l1 == AppendIf(<<>>, ws, {"clear"}, "Clear and articulate delivery")
        l2 == AppendIf(l1, ws, {"confident"}, "Confident speaking style")
        l3 == AppendIf(l2, ws, {"good", "well"}, "Well-structured message")
        l4 == AppendIf(l3, ws, {"engaging"}, "Engaging presentation style")
        l5 == IF l4 = <<>> THEN <<"Voice message received and processed">> ELSE l4
    IN  FirstThree(l5)

\* a model reply whose feedback lists are to be built
InitExtract ==
    /\ InitServer
    /\ call \in [fn : {"to_extract"}, reply : SUBSET ReplyWords]

\* process_audio_message line 328
ExtractImprovements ==
    /\ call.fn = "to_extract"
    /\ call' = [fn |-> "_extract_improvements", reply |-> call.reply,
                out |-> extract_improvements(call.reply)]
    /\ UNCHANGED <<active_sessions, partsRead, cvars, hvars, svars, histvars, srvvars>>

\* process_audio_message line 329
ExtractAchievements ==
    /\ call.fn = "to_extract"
    /\ call' = [fn |-> "_extract_achievements", reply |-> call.reply,
                out |-> extract_achievements(call.reply)]
    /\ UNCHANGED <<active_sessions, partsRead, cvars, hvars, svars, histvars, srvvars>>

NextExtract == ExtractImprovements \/ ExtractAchievements

SpecExtract == InitExtract /\ [][NextExtract]_vars

\* the context argument of process_audio_message: not given (None), or a
\* dict with some of the keys the handler writes (lines 159-164) and with
\* or without messageCount
MaxCount == 7
NoCount == -1
OtherKeys == {"customer", "scenario", "client_id"}
Contexts ==
    {x \in [given : BOOLEAN, others : SUBSET OtherKeys, count : NoCount..MaxCount] :
        ~x.given => (x.others = {} /\ x.count = NoCount)}

\* a value of progressPercent: None, or an integer
Null == [null |-> TRUE, value |-> 0]
Value(n) == [null |-> FALSE, value |-> n]

\* _calculate_progress lines 558-565: `not context` holds for None and for
\* the empty dict; context.get("messageCount", 0)
calculate_progress(x) ==
    IF ~x.given \/ (x.others = {} /\ x.count = NoCount)
    THEN Null
    ELSE LET message_count == IF x.count = NoCount THEN 0 ELSE x.count
         IN  Value(Min(message_count * 20, 100))

\* a context whose progress is to be computed
InitProgress ==
    /\ InitServer
    /\ call \in [fn : {"to_progress"}, context : Contexts]

\* process_audio_message line 330
CalculateProgress ==
    /\ call.fn = "to_progress"
    /\ call' = [fn |-> "_calculate_progress", context |-> call.context,
                out |-> calculate_progress(call.context)]
    /\ UNCHANGED <<active_sessions, partsRead, cvars, hvars, svars, histvars, srvvars>>

SpecProgress == InitProgress /\ [][CalculateProgress]_vars

\* ------------------------------- frames of one streaming exchange

\* parts of a modelTurn: text (its characters), inlineData with an audio
\* mime type (its decoded bytes), inlineData of another mime type
Parts ==
    {[kind |-> "text", chars |-> <<"a">>, bytes |-> <<>>],
     [kind |-> "text", chars |-> <<" ">>, bytes |-> <<>>],
     [kind |-> "audio", chars |-> <<>>, bytes |-> <<1>>],
     [kind |-> "audio", chars |-> <<>>, bytes |-> <<2>>],
     [kind |-> "image", chars |-> <<>>, bytes |-> <<3>>]}

PartLists == {<<>>} \cup {<<p>> : p \in Parts} \cup {<<p, q>> : p, q \in Parts}

\* frames the upstream sends: serverContent (with turnComplete or not), an
\* error, anything else
UpstreamFrames ==
    [kind : {"serverContent"}, parts : PartLists, turnComplete : BOOLEAN]
       \cup [kind : {"error", "other"}, parts : {<<>>}, turnComplete : {FALSE}]

\* longest run of frames that arrive before recv() times out
MaxStream == 2

Streams == UNION {[1..n -> UpstreamFrames] : n \in 1..MaxStream}

\* str.strip()
RECURSIVE StripLeft(_)
StripLeft(s) == IF s # <<>> /\ Head(s) = " " THEN StripLeft(Tail(s)) ELSE s

RECURSIVE StripRight(_)
StripRight(s) ==
    IF s # <<>> /\ s[Len(s)] = " " THEN StripRight(SubSeq(s, 1, Len(s) - 1)) ELSE s

strip(s) == StripRight(StripLeft(s))

\* audioData: None, or the buffer
NoBuffer == [null |-> TRUE, bytes |-> <<>>]
Buffer(b) == [null |-> FALSE, bytes |-> b]

\* lines 264-273: the parts of one frame added to the text and the buffer
RECURSIVE AddParts(_, _, _)
AddParts(acc, parts, i) ==
    IF i > Len(parts) THEN acc
    ELSE LET p == parts[i]
         IN  AddParts(CASE p.kind = "text" -> [acc EXCEPT !.text = @ \o p.chars]
                        [] p.kind = "audio" -> [acc EXCEPT !.audio = @ \o p.bytes]
                        [] OTHER -> acc,
                      parts, i + 1)

\* lines 282-290 and 294-300
StreamError(text) ==
    [err |-> TRUE, error |-> text, text |-> <<>>, hasAudio |-> FALSE,
     audioData |-> NoBuffer, audioSize |-> 0]

\* lines 282-288 with the text returned as it was collected
StreamResult_Unstripped(acc) ==
    [err |-> FALSE, error |-> "", text |-> acc.text,
     hasAudio |-> Len(acc.audio) > 0,
     audioData |-> IF Len(acc.audio) > 0 THEN Buffer(acc.audio) ELSE NoBuffer,
     audioSize |-> Len(acc.audio)]

\* lines 282-288
StreamResult(acc) ==
    [err |-> FALSE, error |-> "", text |-> strip(acc.text),
     hasAudio |-> Len(acc.audio) > 0,
     audioData |-> IF Len(acc.audio) > 0 THEN Buffer(acc.audio) ELSE NoBuffer,
     audioSize |-> Len(acc.audio)]

\* the loop of lines 253-280 from frame i on; a stream that ends before a
\* turnComplete or error frame leaves recv() to its timeout (line 294)
RECURSIVE CollectFrom(_, _, _)
CollectFrom(stream, i, acc) ==
    IF i > Len(stream) THEN StreamError("Response timeout")
    ELSE LET f == stream[i]
         IN  CASE f.kind = "serverContent" ->
                    LET acc2 == AddParts(acc, f.parts, 1)
                    IN  IF f.turnComplete THEN StreamResult(acc2)
                        ELSE CollectFrom(stream, i + 1, acc2)
               [] f.kind = "error" -> StreamError("upstream error")
               [] OTHER -> CollectFrom(stream, i + 1, acc)

\* _wait_for_complete_response lines 246-300
wait_for_complete_response(stream) ==
    CollectFrom(stream, 1, [text |-> <<>>, audio |-> <<>>])

\* the frames an exchange is about to receive
InitCollect ==
    /\ InitServer
    /\ call \in [fn : {"to_collect"}, stream : Streams]

\* send_text_message line 238
WaitForCompleteResponse ==
    /\ call.fn = "to_collect"
    /\ call' = [fn |-> "_wait_for_complete_response", stream |-> call.stream,
                out |-> wait_for_complete_response(call.stream)]
    /\ UNCHANGED <<active_sessions, partsRead, cvars, hvars, svars, histvars, srvvars>>

SpecCollect == InitCollect /\ [][WaitForCompleteResponse]_vars

\* ------------------------------------------------ server lifecycle

\* signal_handler (lines 92-94): the shutdown flag is set
Signal ==
    /\ serverPc = "running"
    /\ serverPc' = "shutdown_set"
    /\ UNCHANGED <<lvars, cvars, hvars, svars, histvars, listening, shutdownClients>>

\* _run_server_loop leaves its loop and _cleanup_server (lines 195-196)
\* calls self._server.close(): the listening transport is closed and the
\* library closes every open client connection
ServerClose ==
    /\ serverPc = "shutdown_set"
    /\ listening' = FALSE
    /\ clientSock' = [c \in Clients |->
                        IF clientSock[c] = "open" THEN "closed" ELSE clientSock[c]]
    /\ shutdownClients' = {c \in active_clients : clientSock[c] = "open"}
    /\ serverPc' = "wait_closed"
    /\ UNCHANGED <<lvars, pc, inbox, cur, frames, closing, hvars, svars, histvars>>

\* clients the broadcast writes to: broadcast_message lines 369-371
BroadcastTargets == {c \in active_clients : clientSock[c] = "open"}

\* _cleanup_server lines 197-209: wait_closed() returns once every
\* connection handler has ended, then broadcast_message (lines 356-380)
ServerBroadcast ==
    /\ serverPc = "wait_closed"
    /\ \A c \in Clients : pc[c] \in {"idle", "done"}
    /\ frames' = [c \in Clients |->
                    IF c \in BroadcastTargets
                    THEN Append(frames[c], Frame("serverShutdown", 0, ""))
                    ELSE frames[c]]
    /\ active_clients' = BroadcastTargets
    /\ serverPc' = "done"
    /\ UNCHANGED <<lvars, pc, clientSock, inbox, cur, closing, gemini_connected,
                   client_sessions, server_stats, svars, histvars,
                   listening, shutdownClients>>

\* broadcast_message (lines 356-380) called while the server runs and
\* clients are registered: the frame is written to every client, and the
\* clients whose send raised are discarded from active_clients; MaxFrames
\* caps the frames a client has received when a broadcast is made
MaxFrames == 3

Broadcast ==
    /\ serverPc = "running"
    /\ active_clients # {}
    /\ \A c \in BroadcastTargets : Len(frames[c]) < MaxFrames
    /\ frames' = [c \in Clients |->
                    IF c \in BroadcastTargets
                    THEN Append(frames[c], Frame("serverShutdown", 0, ""))
                    ELSE frames[c]]
    /\ active_clients' = BroadcastTargets
    /\ UNCHANGED <<lvars, pc, clientSock, inbox, cur, closing, gemini_connected,
                   client_sessions, server_stats, svars, histvars, srvvars>>

\* --------------------------------------------- startup and exit

\* no exit code yet: the process runs
NoExit == -1

\* the environment the process starts in: GEMINI_API_KEY is set and not
\* empty; a process listens on the port (connect_ex returns 0); the port
\* can be bound
Environments ==
    {e \in [hasKey : BOOLEAN, portBusy : BOOLEAN, bindable : BOOLEAN] :
        e.portBusy => ~e.bindable}

\* the process at the start of main()
InitStartup ==
    /\ InitSessions
    /\ serverPc = "starting"
    /\ listening = FALSE
    /\ call \in [fn : {"main"}, env : Environments, exit : {NoExit}]

\* the process ends with the exit code `code`
Exit(code) ==
    /\ serverPc' = "exited"
    /\ call' = [call EXCEPT !.exit = code]

\* main without the call of validate_environment (lines 259-260)
Startup_NoValidation ==
    /\ serverPc = "starting"
    /\ serverPc' = "binding" /\ UNCHANGED call
    /\ UNCHANGED <<active_sessions, partsRead, cvars, hvars, svars, histvars,
                   listening, shutdownClients>>

\* main lines 255-264 and start_server lines 46-63 up to the await of
\* websockets.serve: validate_environment (lines 216-251) fails without a
\* key or with the port taken and main calls sys.exit(1)
Startup ==
    /\ serverPc = "starting"
    /\ IF ~call.env.hasKey \/ call.env.portBusy
       THEN Exit(1)
       ELSE serverPc' = "binding" /\ UNCHANGED call
    /\ UNCHANGED <<active_sessions, partsRead, cvars, hvars, svars, histvars,
                   listening, shutdownClients>>

\* websockets.serve (lines 63-71) returns with the port bound, or raises:
\* start_server re-raises (lines 84-86), _cleanup_server finds no server
\* (line 195) and main calls sys.exit(1) (lines 270-278)
Serve ==
    /\ serverPc = "binding"
    /\ IF call.env.bindable
       THEN listening' = TRUE /\ serverPc' = "running" /\ UNCHANGED call
       ELSE Exit(1) /\ UNCHANGED listening
    /\ UNCHANGED <<active_sessions, partsRead, cvars, hvars, svars, histvars,
                   shutdownClients>>

\* start_server and main return after _cleanup_server; asyncio.run returns
\* (line 285) and the interpreter ends with code 0
MainReturns ==
    /\ serverPc = "done"
    /\ call.fn = "main"
    /\ Exit(0)
    /\ UNCHANGED <<active_sessions, partsRead, cvars, hvars, svars, histvars,
                   listening, shutdownClients>>

\* ------------------------------------------------ specification

Next ==
    \/ \E c \in Clients : Arrive(c)
    \/ \E c \in Clients : ConnectWsOpen(c)
    \/ \E c \in Clients : ConnectWsFail(c)
    \/ \E c \in Clients : ConnectSetupComplete(c)
    \/ \E c \in Clients : ConnectSetupFail(c)
    \/ \E c \in Clients : \E ok \in BOOLEAN : ConnectHttp(c, ok)
    \/ \E c \in Clients : Cleanup(c)
    \/ \E c \in Clients : DisconnectDone(c)
    \/ \E c \in Clients : ClientClose(c)
    \/ \E c \in Clients : \E k \in MsgKinds : ClientSend(c, k)
    \/ \E c \in Clients : HandlePing(c)
    \/ \E c \in Clients : \E r \in {"not_connected", "http", "ws", "ws_fail_http"} :
          HandleVoice(c, r)
    \/ \E c \in Clients : \E r \in {"not_connected", "ws", "ws_error"} :
          HandleAudioStream(c, r)
    \/ \E c \in Clients : \E ok \in BOOLEAN : HttpReturn(c, ok)
    \/ \E c \in Clients : \E res \in {OkResult, AudioResult, ErrResult} : WsReturn(c, res)
    \/ Signal
    \/ ServerClose
    \/ ServerBroadcast

Spec == Init /\ [][Next]_vars

\* registration, connect, cleanup, disconnect and shutdown; clients send pings
NextLifecycle ==
    \/ \E c \in Clients : Arrive(c)
    \/ \E c \in Clients : ConnectWsOpen(c)
    \/ \E c \in Clients : ConnectWsFail(c)
    \/ \E c \in Clients : ConnectSetupComplete(c)
    \/ \E c \in Clients : ConnectSetupFail(c)
    \/ \E c \in Clients : \E ok \in BOOLEAN : ConnectHttp(c, ok)
    \/ \E c \in Clients : Cleanup(c)
    \/ \E c \in Clients : DisconnectDone(c)
    \/ \E c \in Clients : ClientClose(c)
    \/ \E c \in Clients : ClientSend(c, "ping")
    \/ \E c \in Clients : HandlePing(c)
    \/ Signal
    \/ ServerClose
    \/ ServerBroadcast

SpecLifecycle == Init /\ [][NextLifecycle]_vars

\* the process from the start of main() to its exit
NextStartup ==
    \/ Startup
    \/ Serve
    \/ \E c \in Clients : Arrive(c)
    \/ \E c \in Clients : ConnectWsOpen(c)
    \/ \E c \in Clients : ConnectWsFail(c)
    \/ \E c \in Clients : ConnectSetupComplete(c)
    \/ \E c \in Clients : ConnectSetupFail(c)
    \/ \E c \in Clients : \E ok \in BOOLEAN : ConnectHttp(c, ok)
    \/ \E c \in Clients : Cleanup(c)
    \/ \E c \in Clients : DisconnectDone(c)
    \/ \E c \in Clients : ClientClose(c)
    \/ Signal
    \/ ServerClose
    \/ ServerBroadcast
    \/ MainReturns

SpecStartup == InitStartup /\ [][NextStartup]_vars

\* sessions and their upstream requests while the server runs
NextSession ==
    \/ \E c \in Clients : Arrive(c)
    \/ \E c \in Clients : ConnectWsOpen(c)
    \/ \E c \in Clients : ConnectWsFail(c)
    \/ \E c \in Clients : ConnectSetupComplete(c)
    \/ \E c \in Clients : ConnectSetupFail(c)
    \/ \E c \in Clients : \E ok \in BOOLEAN : ConnectHttp(c, ok)
    \/ \E c \in Clients : Cleanup(c)
    \/ \E c \in Clients : DisconnectDone(c)
    \/ \E c \in Clients : ClientClose(c)
    \/ \E c \in Clients : \E k \in MsgKinds : ClientSend(c, k)
    \/ \E c \in Clients : HandlePing(c)
    \/ \E c \in Clients : \E r \in {"not_connected", "http", "ws", "ws_fail_http"} :
          HandleVoice(c, r)
    \/ \E c \in Clients : \E r \in {"not_connected", "ws", "ws_error"} :
          HandleAudioStream(c, r)
    \/ \E c \in Clients : \E ok \in BOOLEAN : HttpReturn(c, ok)
    \/ \E c \in Clients : \E res \in {OkResult, AudioResult, ErrResult} : WsReturn(c, res)

SpecSession == Init /\ [][NextSession]_vars

\* registration, connect, cleanup and disconnect while the server runs
NextRegistry ==
    \/ \E c \in Clients : Arrive(c)
    \/ \E c \in Clients : ConnectWsOpen(c)
    \/ \E c \in Clients : ConnectWsFail(c)
    \/ \E c \in Clients : ConnectSetupComplete(c)
    \/ \E c \in Clients : ConnectSetupFail(c)
    \/ \E c \in Clients : \E ok \in BOOLEAN : ConnectHttp(c, ok)
    \/ \E c \in Clients : Cleanup(c)
    \/ \E c \in Clients : DisconnectDone(c)
    \/ \E c \in Clients : ClientClose(c)
    \/ \E c \in Clients : ClientSend(c, "ping")
    \/ \E c \in Clients : HandlePing(c)

SpecRegistry == Init /\ [][NextRegistry]_vars

\* sessions coming and going, with a close() of the upstream socket that may
\* raise
NextDisconnect ==
    \/ \E c \in Clients : Arrive(c)
    \/ \E c \in Clients : ConnectWsOpen(c)
    \/ \E c \in Clients : ConnectWsFail(c)
    \/ \E c \in Clients : ConnectSetupComplete(c)
    \/ \E c \in Clients : ConnectSetupFail(c)
    \/ \E c \in Clients : \E ok \in BOOLEAN : ConnectHttp(c, ok)
    \/ \E c \in Clients : Cleanup(c)
    \/ \E c \in Clients : DisconnectDone(c)
    \/ \E c \in Clients : DisconnectCloseRaised(c)
    \/ \E c \in Clients : ClientClose(c)

SpecDisconnect == Init /\ [][NextDisconnect]_vars

\* sessions coming and going, with broadcasts to the registered clients
NextBroadcast ==
    \/ \E c \in Clients : Arrive(c)
    \/ \E c \in Clients : ConnectWsOpen(c)
    \/ \E c \in Clients : ConnectWsFail(c)
    \/ \E c \in Clients : ConnectSetupComplete(c)
    \/ \E c \in Clients : ConnectSetupFail(c)
    \/ \E c \in Clients : \E ok \in BOOLEAN : ConnectHttp(c, ok)
    \/ \E c \in Clients : Cleanup(c)
    \/ \E c \in Clients : DisconnectDone(c)
    \/ \E c \in Clients : ClientClose(c)
    \/ Broadcast

SpecBroadcast == Init /\ [][NextBroadcast]_vars

\* sessions whose connect() reached the streaming state, sending voice_data
NextSendFail ==
    \/ \E c \in Clients : Arrive(c)
    \/ \E c \in Clients : ConnectWsOpen(c)
    \/ \E c \in Clients : ConnectSetupComplete(c)
    \/ \E c \in Clients : \E k \in {"voice_text", "voice_audio"} : ClientSend(c, k)
    \/ \E c \in Clients : \E r \in {"http", "ws", "ws_fail_http"} : HandleVoice(c, r)
    \/ \E c \in Clients : \E ok \in BOOLEAN : HttpReturn(c, ok)
    \/ \E c \in Clients : \E res \in {OkResult, AudioResult, ErrResult} : WsReturn(c, res)

SpecSendFail == Init /\ [][NextSendFail]_vars

\* streaming sessions that count their messages, come and go
NextCounters ==
    \/ \E c \in Clients : Arrive(c)
    \/ \E c \in Clients : ConnectWsOpen(c)
    \/ \E c \in Clients : ConnectSetupComplete(c)
    \/ \E c \in Clients : \E k \in {"voice_audio", "voice_empty"} : ClientSend(c, k)
    \/ \E c \in Clients : \E r \in {"not_connected", "ws"} : HandleVoice(c, r)
    \/ \E c \in Clients : HandleVoiceEmpty(c)
    \/ \E c \in Clients : \E res \in {OkResult, ErrResult} : WsReturn(c, res)
    \/ \E c \in Clients : ClientClose(c)
    \/ \E c \in Clients : Cleanup(c)
    \/ \E c \in Clients : DisconnectDone(c)

SpecCounters == Init /\ [][NextCounters]_vars

\* ------------------- frames on the streaming socket, request by request

\* a streaming request: the client and the index of its message
Turn(c, idx) == [c |-> c, idx |-> idx]
NoTurn == Turn(0, 0)

\* frames that can wait unread on the streaming socket
MaxWire == 2

\* the socket of a connected service: `wire` holds the frames that arrived
\* and were not read yet, each with the request the upstream produced it for
\* and its turnComplete mark; `open` the requests the upstream is still
\* answering, `seen` those it has received; got[c] the requests whose frames
\* the exchange of client c has collected; reply[c] the last reply returned
\* to c: the request it answers and the requests its frames were made for;
\* `abandoned` the requests whose exchange ended in a timeout
InitStale ==
    /\ InitServer
    /\ call = [fn |-> "socket", wire |-> <<>>, open |-> {}, seen |-> {},
               abandoned |-> {},
               got |-> [c \in Clients |-> {}],
               reply |-> [c \in Clients |-> [of |-> NoTurn, from |-> {}]]]

\* the upstream receives the request written at send_text_message line 234
UpstreamReceives(c) ==
    /\ pc[c] = "ws_wait"
    /\ Turn(c, cur[c].idx) \notin call.seen
    /\ call' = [call EXCEPT !.seen = @ \cup {Turn(c, cur[c].idx)},
                            !.open = @ \cup {Turn(c, cur[c].idx)}]
    /\ UNCHANGED <<active_sessions, partsRead, cvars, hvars, svars, histvars, srvvars>>

\* the upstream writes a frame of the answer to request t; `last` marks it
\* turnComplete
UpstreamFrame(t, last) ==
    /\ t \in call.open
    /\ Len(call.wire) < MaxWire
    /\ call' = [call EXCEPT !.wire = Append(@, [turn |-> t, last |-> last]),
                            !.open = IF last THEN @ \ {t} ELSE @]
    /\ UNCHANGED <<active_sessions, partsRead, cvars, hvars, svars, histvars, srvvars>>

\* _wait_for_complete_response lines 253-291: recv() returns the oldest
\* unread frame, whatever request it was produced for; the reply is
\* returned when the frame is marked turnComplete
RecvFrame(c) ==
    /\ pc[c] = "ws_wait"
    /\ call.wire # <<>>
    /\ LET f == Head(call.wire)
           collected == call.got[c] \cup {f.turn}
       IN  IF f.last
           THEN /\ call' = [call EXCEPT
                              !.wire = Tail(@),
                              !.got[c] = {},
                              !.reply[c] = [of |-> Turn(c, cur[c].idx), from |-> collected]]
                /\ Finish(c, cur[c].kind, cur[c].idx, OkResult,
                          frames, client_sessions, server_stats)
           ELSE /\ call' = [call EXCEPT !.wire = Tail(@), !.got[c] = collected]
                /\ UNCHANGED <<pc, frames, client_sessions, server_stats>>
    /\ UNCHANGED <<active_sessions, partsRead, clientSock, inbox, cur, closing,
                   gemini_connected, active_clients, svars, histvars, srvvars>>

\* _wait_for_complete_response lines 254 and 294-296: nothing arrives for
\* 30 s; what the exchange had collected is dropped with it
RecvTimeout(c) ==
    /\ pc[c] = "ws_wait"
    /\ call.wire = <<>>
    /\ call' = [call EXCEPT !.got[c] = {},
                            !.abandoned = @ \cup {Turn(c, cur[c].idx)}]
    /\ Finish(c, cur[c].kind, cur[c].idx, ErrResult, frames, client_sessions, server_stats)
    /\ UNCHANGED <<active_sessions, partsRead, clientSock, inbox, cur, closing,
                   gemini_connected, active_clients, svars, histvars, srvvars>>

\* streaming sessions whose requests are answered frame by frame
NextStale ==
    \/ \E c \in Clients : Arrive(c)
    \/ \E c \in Clients : ConnectWsOpen(c)
    \/ \E c \in Clients : ConnectSetupComplete(c)
    \/ \E c \in Clients : ClientSend(c, "voice_text")
    \/ \E c \in Clients : HandleVoice(c, "ws")
    \/ \E c \in Clients : UpstreamReceives(c)
    \/ \E t \in call.open : \E last \in BOOLEAN : UpstreamFrame(t, last)
    \/ \E c \in Clients : RecvFrame(c)
    \/ \E c \in Clients : RecvTimeout(c)

SpecStale == InitStale /\ [][NextStale]_vars

\* the message loops of sessions that stay open: pings and voice_data
NextOrdering ==
    \/ \E c \in Clients : Arrive(c)
    \/ \E c \in Clients : ConnectWsOpen(c)
    \/ \E c \in Clients : ConnectWsFail(c)
    \/ \E c \in Clients : ConnectSetupComplete(c)
    \/ \E c \in Clients : ConnectSetupFail(c)
    \/ \E c \in Clients : \E ok \in BOOLEAN : ConnectHttp(c, ok)
    \/ \E c \in Clients : \E k \in {"ping", "voice_text", "voice_audio"} : ClientSend(c, k)
    \/ \E c \in Clients : HandlePing(c)
    \/ \E c \in Clients : \E r \in {"not_connected", "http", "ws", "ws_fail_http"} :
          HandleVoice(c, r)
    \/ \E c \in Clients : \E ok \in BOOLEAN : HttpReturn(c, ok)
    \/ \E c \in Clients : \E res \in {OkResult, AudioResult, ErrResult} : WsReturn(c, res)

SpecOrdering == Init /\ [][NextOrdering]_vars

\* both handlers' answers to text that is not JSON and to voice_data
\* without a payload, with pings
NextInvalid ==
    \/ \E c \in Clients : Arrive(c)
    \/ \E c \in Clients : ConnectWsOpen(c)
    \/ \E c \in Clients : ConnectWsFail(c)
    \/ \E c \in Clients : ConnectSetupComplete(c)
    \/ \E c \in Clients : ConnectSetupFail(c)
    \/ \E c \in Clients : \E ok \in BOOLEAN : ConnectHttp(c, ok)
    \/ \E c \in Clients : \E k \in {"ping", "bad_json", "voice_empty"} : ClientSend(c, k)
    \/ \E c \in Clients : HandlePing(c)
    \/ \E c \in Clients : HandleBadJson(c)
    \/ \E c \in Clients : HandleVoiceEmpty(c)
    \/ \E c \in Clients : handle_client(c)
    \/ \E c \in Clients : handle_message(c)
    \/ \E c \in Clients : generate_response(c)

SpecInvalid == Init /\ [][NextInvalid]_vars

\* pings among coaching requests, in sessions of both handlers
NextPing ==
    \/ \E c \in Clients : Arrive(c)
    \/ \E c \in Clients : ConnectWsOpen(c)
    \/ \E c \in Clients : ConnectWsFail(c)
    \/ \E c \in Clients : ConnectSetupComplete(c)
    \/ \E c \in Clients : ConnectSetupFail(c)
    \/ \E c \in Clients : \E ok \in BOOLEAN : ConnectHttp(c, ok)
    \/ \E c \in Clients : \E k \in {"ping", "voice_audio"} : ClientSend(c, k)
    \/ \E c \in Clients : HandlePing(c)
    \/ \E c \in Clients : \E r \in {"not_connected", "http", "ws", "ws_fail_http"} :
          HandleVoice(c, r)
    \/ \E c \in Clients : \E ok \in BOOLEAN : HttpReturn(c, ok)
    \/ \E c \in Clients : \E res \in {OkResult, AudioResult, ErrResult} : WsReturn(c, res)
    \/ \E c \in Clients : handle_client(c)
    \/ \E c \in Clients : handle_message(c)
    \/ \E c \in Clients : generate_response(c)

SpecPing == Init /\ [][NextPing]_vars

\* both handlers' routing by type: routed types and types they do not know
NextRouting ==
    \/ \E c \in Clients : Arrive(c)
    \/ \E c \in Clients : ConnectWsOpen(c)
    \/ \E c \in Clients : ConnectWsFail(c)
    \/ \E c \in Clients : ConnectSetupComplete(c)
    \/ \E c \in Clients : ConnectSetupFail(c)
    \/ \E c \in Clients : \E ok \in BOOLEAN : ConnectHttp(c, ok)
    \/ \E c \in Clients : \E k \in {"ping", "session_start", "unknown_type", "no_type"} :
          ClientSend(c, k)
    \/ \E c \in Clients : HandlePing(c)
    \/ \E c \in Clients : HandleSessionStart(c)
    \/ \E c \in Clients : HandleUnknown(c)
    \/ \E c \in Clients : handle_client(c)
    \/ \E c \in Clients : handle_message(c)

SpecRouting == Init /\ [][NextRouting]_vars

\* session starts beside voice requests of other sessions
NextSessionStart ==
    \/ \E c \in Clients : Arrive(c)
    \/ \E c \in Clients : ConnectWsOpen(c)
    \/ \E c \in Clients : ConnectWsFail(c)
    \/ \E c \in Clients : ConnectSetupComplete(c)
    \/ \E c \in Clients : ConnectSetupFail(c)
    \/ \E c \in Clients : \E ok \in BOOLEAN : ConnectHttp(c, ok)
    \/ \E c \in Clients : \E k \in {"session_start", "session_bare", "voice_audio"} :
          ClientSend(c, k)
    \/ \E c \in Clients : HandleSessionStart(c)
    \/ \E c \in Clients : \E r \in {"not_connected", "http", "ws", "ws_fail_http"} :
          HandleVoice(c, r)
    \/ \E c \in Clients : \E ok \in BOOLEAN : HttpReturn(c, ok)
    \/ \E c \in Clients : \E res \in {OkResult, AudioResult, ErrResult} : WsReturn(c, res)

SpecSessionStart == Init /\ [][NextSessionStart]_vars

\* coaching requests and final chunks on the streaming transport, with an
\* upstream that may send any number of frames before the last one
NextStreaming ==
    \/ \E c \in Clients : Arrive(c)
    \/ \E c \in Clients : ConnectWsOpen(c)
    \/ \E c \in Clients : ConnectWsFail(c)
    \/ \E c \in Clients : ConnectSetupComplete(c)
    \/ \E c \in Clients : ConnectSetupFail(c)
    \/ \E c \in Clients : \E ok \in BOOLEAN : ConnectHttp(c, ok)
    \/ \E c \in Clients : \E k \in {"voice_text", "audio_final"} : ClientSend(c, k)
    \/ \E c \in Clients : \E r \in {"not_connected", "http", "ws", "ws_fail_http"} :
          HandleVoice(c, r)
    \/ \E c \in Clients : \E r \in {"not_connected", "ws", "ws_error"} :
          HandleAudioStream(c, r)
    \/ \E c \in Clients : \E ok \in BOOLEAN : HttpReturn(c, ok)
    \/ \E c \in Clients : WsFrame(c)
    \/ \E c \in Clients : \E res \in {OkResult, AudioResult, ErrResult} : WsReturn(c, res)

SpecStreaming == Init /\ [][NextStreaming]_vars

\* asyncio.wait_for(recv(), 30) (line 254) returns within 30 s, with a
\* frame or with the timeout
RecvReturns(c) ==
    \/ WsFrame(c)
    \/ \E res \in {OkResult, AudioResult, ErrResult} : WsReturn(c, res)

\* every pending recv() returns
FairStreaming == SpecStreaming /\ \A c \in Clients : WF_vars(RecvReturns(c))

\* messages whose handling raises
NextRaising ==
    \/ \E c \in Clients : Arrive(c)
    \/ \E c \in Clients : ConnectWsOpen(c)
    \/ \E c \in Clients : ConnectWsFail(c)
    \/ \E c \in Clients : ConnectSetupComplete(c)
    \/ \E c \in Clients : ConnectSetupFail(c)
    \/ \E c \in Clients : \E ok \in BOOLEAN : ConnectHttp(c, ok)
    \/ \E c \in Clients : \E k \in RaisingKinds : ClientSend(c, k)
    \/ \E c \in Clients : HandleRaising(c)

SpecRaising == Init /\ [][NextRaising]_vars

\* ================================================================ claims

ConnectPcs == {"connect_ws", "connect_setup", "connect_http"}

\* C1: handlers that start together while the upstream is disconnected
\* invoke connect() once in total: no two connect() calls are ever in
\* progress at the same time.
C1_ConnectOnce ==
    Cardinality({c \in Clients : pc[c] \in ConnectPcs}) <= 1

\* C2: every drop of the active set to zero invokes disconnect() exactly
\* once.  Stated for the drops made by a session that had been accepted
\* (it was in its message loop): the step that empties active_clients is
\* the step that invokes disconnect().
C2_DisconnectPerDrop ==
    [][\A c \in Clients :
          (pc[c] = "ready" /\ active_clients = {c} /\ active_clients' = {})
             => disconnectCalls' = disconnectCalls + 1]_vars

\* no connect()/disconnect() call and no rejection or cleanup in progress
Quiescent ==
    \A c \in Clients : pc[c] \notin ConnectPcs \cup {"rejected", "disconnecting"}

\* C3: in every quiescent state the upstream is connected (both flags)
\* exactly when at least one client session is active.
C3_ConnectedIffActive ==
    Quiescent => ((gemini_connected /\ is_connected) <=> (active_clients # {}))

\* the step in which client d reads the "is upstream connected" decision:
\* line 61 of handle_client, or line 328 of _cleanup_client
DecisionStep(d) ==
    \/ pc[d] = "idle" /\ pc'[d] # "idle"
    \/ pc[d] \in {"ready", "rejected"} /\ pc'[d] \in {"disconnecting", "done"}

\* C4: while a connect() or disconnect() started by one session is still
\* awaiting, no other session reads or acts on the decision.
C4_DecisionExclusive ==
    [][\A c \in Clients :
          pc[c] \in ConnectPcs \cup {"disconnecting"}
             => \A d \in Clients \ {c} : ~DecisionStep(d)]_vars

\* C5: between a request's send on the streaming socket and the end of
\* its response collection no other request sends on or receives from
\* the socket.
C5_ExchangesSerialized ==
    [][\A c \in Clients :
          pc[c] = "ws_wait"
             => /\ wsSends' = wsSends
                /\ \A d \in Clients \ {c} : pc[d] # "ws_wait"]_vars

\* the step in which client c's handler starts a coaching request
\* (send_text_message or process_audio_message)
CoachingStart(c) ==
    cur'[c] # cur[c] /\ cur'[c].kind \in {"voice_text", "voice_audio"}

\* C6: a connect() whose handshake failed and whose probe succeeded
\* returns in the fallback state (both flags set), and a coaching request
\* started in the fallback state never sends on the streaming socket.
C6_FallbackCorrect ==
    [][\A c \in Clients :
          /\ (pc[c] = "connect_http" /\ pc'[c] = "ready")
                => (use_http_fallback' /\ is_connected')
          /\ (use_http_fallback /\ CoachingStart(c)) => wsSends' = wsSends]_vars

\* C7: once fallen back, no request sends on the streaming socket, and
\* the fallback flag is cleared only by a connect() whose streaming
\* handshake succeeds.
C7_FallbackSticky ==
    [][/\ use_http_fallback => wsSends' = wsSends
       /\ (use_http_fallback /\ ~use_http_fallback')
             => \E c \in Clients : pc[c] = "connect_setup" /\ pc'[c] = "ready"]_vars

ErrorFrame == Frame("error", 0, ConnectFailedText)

\* C8: a client whose connect() failed is rejected: it gets the error
\* frame (if its socket is still open) and nothing else, never a
\* `connected` frame, none of its messages is handled, after cleanup it
\* is registered nowhere, and as long as every client so far was rejected
\* the handler still counts the upstream as disconnected, so the next
\* client calls connect() again.
C8_RejectedOnConnectFailure ==
    /\ \A c \in connectFailed :
          /\ pc[c] \in {"rejected", "disconnecting", "done"}
          /\ frames[c] \in {<<>>, <<ErrorFrame>>}
          /\ frames[c] = <<>> => clientSock[c] = "closed"
          /\ cur[c] = NoMsg
          /\ Len(inbox[c]) = sent[c]
          /\ pc[c] # "rejected" => (c \notin active_clients /\ c \notin DOMAIN client_sessions)
    /\ (\A c \in Clients : pc[c] = "idle" \/ (c \in connectFailed /\ pc[c] = "done"))
          => ~gemini_connected

\* a rejected client that had sent a message, and the next client's
\* connect() under way
C8_Witness ==
    \E c \in connectFailed : \E d \in Clients \ {c} :
        /\ pc[c] = "done" /\ frames[c] = <<ErrorFrame>> /\ sent[c] > 0
        /\ pc[d] = "connect_ws" /\ connectCalls = 2

\* C9: every client still connected at shutdown has been sent a
\* serverShutdown frame by the time the listening transport and the
\* client connections are closed.
C9_ShutdownBroadcastFirst ==
    ~listening =>
        \A c \in shutdownClients : "serverShutdown" \in FrameTypes(c)

\* reply frames carry the arrival number of the message they answer
ReplyIdx(c) == [i \in 1..Len(frames[c]) |-> frames[c][i].msg]

\* C10: within a session messages are handled in arrival order, one at a
\* time: reply frames appear in the order of their messages, no reply
\* belongs to a message later than the one taken last, and every queued
\* message arrived after the one taken last.
C10_RepliesInArrivalOrder ==
    \A c \in Clients :
        /\ \A i, j \in 1..Len(frames[c]) :
              (i < j /\ ReplyIdx(c)[i] > 0 /\ ReplyIdx(c)[j] > 0)
                 => ReplyIdx(c)[i] <= ReplyIdx(c)[j]
        /\ \A i \in 1..Len(frames[c]) : ReplyIdx(c)[i] <= cur[c].idx
        /\ \A i \in 1..Len(inbox[c]) : inbox[c][i].idx > cur[c].idx

\* a session that answered a voice_data message with two frames and then
\* the message that arrived after it
C10_Witness ==
    \E c \in Clients : \E i \in 1..Len(frames[c]) :
        /\ i + 2 <= Len(frames[c])
        /\ frames[c][i] = Frame("processingStarted", 1, "")
        /\ frames[c][i + 1] = Frame("textFeedback", 1, "")
        /\ frames[c][i + 2].msg = 2

\* voice_data messages whose transcribedText is not blank
\* (_handle_voice_data line 138)
HasTranscript(kind) == kind \in {"voice_text", "voice_audio"}

\* a textFeedback frame answering message idx was written to client c
FeedbackSent(c, idx) ==
    \E i \in 1..Len(frames[c]) :
        frames[c][i].type = "textFeedback" /\ frames[c][i].msg = idx

\* C11: a voice_data message with a non-blank transcript received on a
\* ready session gets a textFeedback frame, whatever the upstream call's
\* outcome.  Stated at the end of the message's handling: once the
\* upstream call has returned and the handler is back in its loop, with
\* the client still connected, the textFeedback frame has been sent.
C11_FeedbackForTranscript ==
    \A c \in Clients :
        (pc[c] = "ready" /\ HasTranscript(cur[c].kind) /\ clientSock[c] = "open")
           => FeedbackSent(c, cur[c].idx)

\* voice_data messages that pass the check of _handle_voice_data line 142
ValidVoice(kind) == kind \in {"voice_text", "voice_audio"}

\* the step ends the handling of the message client c took last
EndsRequest(c) ==
    pc'[c] = "ready" /\ (pc[c] \in {"http_wait", "ws_wait"} \/ cur'[c] # cur[c])

\* types of the frames the step writes to client c
AppendedTypes(c) ==
    {frames'[c][i].type : i \in (Len(frames[c]) + 1)..Len(frames'[c])}

\* C12: a validated voice_data request never ends in a bare failure: the
\* step that ends the request, whatever the upstream call's outcome,
\* does not answer with an error frame unless it also sends the
\* textFeedback reply.
C12_NoBareFailure ==
    [][\A c \in Clients :
          (EndsRequest(c) /\ ValidVoice(cur'[c].kind) /\ "error" \in AppendedTypes(c))
             => "textFeedback" \in AppendedTypes(c)]_vars

\* the step in which client c's handler takes a message of kind k
Takes(c, k) == cur'[c] # cur[c] /\ cur'[c].kind = k

\* the step writes exactly the frame fr to client c (nothing when c's
\* socket is closed) and no frame to any other client
WritesOnly(c, fr) ==
    frames' = [frames EXCEPT ![c] = IF clientSock[c] = "open" THEN Append(@, fr) ELSE @]

\* C13: a voice_data message with neither an audio payload nor a
\* non-blank transcript is answered by exactly one error frame "No audio
\* or transcription provided" and nothing else: no processingStarted, no
\* textFeedback, no upstream call, and the audio-message and
\* coaching-response counters of the session and the server keep their
\* values.
C13_EmptyVoiceRefused ==
    [][\A c \in Clients :
          (pc[c] = "ready" /\ Takes(c, "voice_empty")) =>
             /\ WritesOnly(c, Frame("error", cur'[c].idx,
                                    "No audio or transcription provided"))
             /\ pc' = pc
             /\ wsSends' = wsSends
             /\ DOMAIN client_sessions' = DOMAIN client_sessions
             /\ \A d \in DOMAIN client_sessions :
                   /\ client_sessions'[d].audio_messages = client_sessions[d].audio_messages
                   /\ client_sessions'[d].coaching_responses =
                         client_sessions[d].coaching_responses
             /\ server_stats' = server_stats]_vars

\* a session whose second message was an empty voice_data and got the
\* error frame, after a ping
C13_Witness ==
    \E c \in Clients :
        /\ pc[c] = "ready" /\ cur[c] = [idx |-> 2, kind |-> "voice_empty"]
        /\ Len(frames[c]) = 3
        /\ frames[c][2].type = "pong"
        /\ frames[c][3] = Frame("error", 2, "No audio or transcription provided")
        /\ client_sessions[c] = [message_count |-> 2, audio_messages |-> 0,
                                 coaching_responses |-> 0]

\* error texts that mention an invalid format
InvalidFormatTexts == {"Invalid JSON format", "Invalid message format"}

\* C14: text that is not JSON is answered, by either handler, with exactly
\* one error frame whose message mentions an invalid format; nothing else
\* changes, the handler stays in its message loop with the connection
\* open, and a ping that follows on the connection is answered with a pong.
C14_BadJsonAnswered ==
    [][\A c \in Clients :
          /\ Takes(c, "bad_json") =>
                /\ \E t \in InvalidFormatTexts :
                      WritesOnly(c, Frame("error", cur'[c].idx, t))
                /\ pc[c] \in {"ready", "legacy_ready"}
                /\ UNCHANGED <<pc, clientSock, closing, hvars, svars, histvars,
                               srvvars, lvars>>
          /\ (cur[c].kind = "bad_json" /\ Takes(c, "ping")) =>
                /\ WritesOnly(c, Frame("pong", cur'[c].idx, ""))
                /\ UNCHANGED <<pc, clientSock>>]_vars

\* a session of the native handler that sent text that is not JSON and
\* then a ping, and got the error frame and then the pong
C14_Witness ==
    \E c \in Clients :
        /\ pc[c] = "ready" /\ clientSock[c] = "open"
        /\ frames[c] = <<Frame("connected", 0, ""),
                         Frame("error", 1, "Invalid JSON format"),
                         Frame("pong", 2, "")>>

\* C15: a ping taken by either handler is answered with exactly one pong
\* to its sender and no other frame, and leaves every session where it
\* is, whatever the other sessions are doing (upstream calls in flight
\* included); no pong is written except in answer to a ping, so two
\* pings get two pongs.
C15_PingPong ==
    [][\A c \in Clients :
          /\ Takes(c, "ping") =>
                /\ WritesOnly(c, Frame("pong", cur'[c].idx, ""))
                /\ UNCHANGED <<pc, clientSock>>
          /\ "pong" \in AppendedTypes(c) => Takes(c, "ping")]_vars

\* two pings of one session answered with two pongs, beside a session of
\* the other handler
C15_Witness ==
    \E c \in Clients : \E d \in Clients \ {c} :
        /\ pc[c] = "ready" /\ pc[d] = "legacy_ready"
        /\ frames[c] = <<Frame("connected", 0, ""), Frame("pong", 1, ""),
                         Frame("pong", 2, "")>>

\* the types the claim lists
ListedTypes == {"voice_data", "audio_stream", "start_pitch_session", "ping"}

RaisedTexts == {"Processing error", "Voice processing failed",
                "Stream processing failed", "Session start failed",
                "Message processing error"}

\* C17: an exception raised while a message is handled is caught within
\* the handling of that message and answered with an error frame to the
\* sender only; the sender's handler stays in its message loop, no
\* session is removed, and no other client gets a frame or has its
\* session changed.
C17_ExceptionContained ==
    [][\A c \in Clients :
          (cur'[c] # cur[c] /\ cur'[c].kind \in RaisingKinds) =>
             /\ \E t \in RaisedTexts : WritesOnly(c, Frame("error", cur'[c].idx, t))
             /\ UNCHANGED <<pc, clientSock, active_clients>>
             /\ DOMAIN client_sessions' = DOMAIN client_sessions
             /\ \A d \in (DOMAIN client_sessions) \ {c} :
                   client_sessions'[d] = client_sessions[d]]_vars

\* a session with two messages whose handling raised, each answered with
\* an error frame, beside another session that got nothing
C17_Witness ==
    \E c \in Clients : \E d \in Clients \ {c} :
        /\ pc[c] = "ready" /\ pc[d] = "ready"
        /\ frames[c] = <<Frame("connected", 0, ""),
                         Frame("error", 1, "Voice processing failed"),
                         Frame("error", 2, "Processing error")>>
        /\ frames[d] = <<Frame("connected", 0, "")>>
        /\ client_sessions[d] = NewSession
        /\ {c, d} \subseteq active_clients

\* the step in which client c's handler, having left its loop or been
\* rejected, runs _cleanup_client (the finally of handle_client)
Exits(c) == Leaving(c) /\ pc'[c] \in {"disconnecting", "done"}

\* C18: on every exit path of handle_client (the client closes, the
\* connection fails, the upstream connect is rejected, the server shuts
\* down) the cleanup removes the client from active_clients and
\* client_sessions, and when that leaves no active client it invokes the
\* upstream disconnect.
C18_CleanupUnconditional ==
    [][\A c \in Clients :
          Exits(c) =>
             /\ c \notin active_clients'
             /\ c \notin DOMAIN client_sessions'
             /\ active_clients' = {} => disconnectCalls' = disconnectCalls + 1]_vars

\* the sockets a call of disconnect() can find in self.websocket: the one
\* the service holds now, and the one each call in progress has read
DisconnectInputs == {websocket} \cup {closing[c] : c \in Clients}

\* C19: disconnect() called in any state the service reaches (no socket
\* held, a socket open, a socket some other call has closed already), with
\* a close() that returns or raises, raises nothing and ends with
\* is_connected false and no socket held; a second call right after it
\* raises nothing, closes nothing and changes nothing
C19_DisconnectIdempotent ==
    \A ws \in DisconnectInputs : \A r1 \in BOOLEAN : \A r2 \in BOOLEAN :
        LET s1 == disconnect(is_connected, ws, upOpen, r1)
            s2 == disconnect(s1.is_connected, s1.websocket, s1.upOpen, r2)
        IN /\ ~s1.raised
           /\ ~s1.is_connected
           /\ s1.websocket = NoSocket
           /\ ~s2.raised
           /\ s2.closes = 0
           /\ s2.is_connected = s1.is_connected
           /\ s2.websocket = s1.websocket
           /\ s2.upOpen = s1.upOpen

\* every session is over, the one connect() succeeded, the one disconnect()
\* has returned although its close() raised (the socket is still open
\* upstream), and the service is disconnected with no socket held
C19_Witness ==
    /\ \A c \in Clients : pc[c] = "done"
    /\ connectCalls = 1
    /\ disconnectCalls = 1
    /\ upOpen # {}
    /\ ~is_connected
    /\ websocket = NoSocket

\* the frames written to client c in answer to message idx, in order
Replies(c, idx) == SelectSeq(frames[c], LAMBDA f : f.msg = idx)

\* C20: for a validated voice_data message the frames sent are, in this
\* order, one processingStarted (the only frame while the upstream call is
\* pending), one textFeedback, and an audioResponse exactly when the
\* feedback carries hasAudioResponse; no audioResponse frame is sent
\* without a textFeedback for the same message before it.
C20_ReplyFrameOrder ==
    \A c \in Clients :
        /\ (pc[c] \in {"http_wait", "ws_wait"} /\ ValidVoice(cur[c].kind)
                /\ clientSock[c] = "open")
              => Replies(c, cur[c].idx) = <<Frame("processingStarted", cur[c].idx, "")>>
        /\ (pc[c] = "ready" /\ ValidVoice(cur[c].kind) /\ clientSock[c] = "open")
              => LET fs == Replies(c, cur[c].idx)
                 IN /\ Len(fs) \in {2, 3}
                    /\ fs[1].type = "processingStarted"
                    /\ fs[2].type = "textFeedback"
                    /\ (Len(fs) = 3) <=> (fs[2].text = AudioFlag(TRUE))
                    /\ Len(fs) = 3 => fs[3].type = "audioResponse"
        /\ \A i \in 1..Len(frames[c]) :
              frames[c][i].type = "audioResponse"
                 => \E j \in 1..(i - 1) :
                       /\ frames[c][j].type = "textFeedback"
                       /\ frames[c][j].msg = frames[c][i].msg

\* the audio-message and coaching-response counters of client c's session
AudioCounters(cs, c) ==
    IF c \in DOMAIN cs THEN <<cs[c].audio_messages, cs[c].coaching_responses>> ELSE <<>>

\* C21: the step that handles a start_pitch_session message writes exactly
\* one sessionStarted frame carrying the customer's name and the
\* scenario's title (the defaults "Unknown" and "Voice Coaching" when the
\* message carries none) and changes nothing else of what the claim
\* lists: no upstream request or connect, the connection state and the
\* fallback flag, the audio-message and coaching-response counters and
\* the server's totals stay as they are.
C21_SessionStartStateless ==
    [][\A c \in Clients :
          /\ Takes(c, "session_start") /\ pc[c] = "ready"
                => WritesOnly(c, Frame("sessionStarted", cur'[c].idx, "Acme / Cold call"))
          /\ Takes(c, "session_bare") /\ pc[c] = "ready"
                => WritesOnly(c, Frame("sessionStarted", cur'[c].idx,
                                       "Unknown / Voice Coaching"))
          /\ (Takes(c, "session_start") \/ Takes(c, "session_bare")) /\ pc[c] = "ready"
                => /\ UNCHANGED <<svars, connectCalls, disconnectCalls, wsSends,
                                  gemini_connected, server_stats, pc>>
                   /\ AudioCounters(client_sessions', c) = AudioCounters(client_sessions, c)
      ]_vars

\* a session was told "Acme / Cold call" while another session's upstream
\* call was pending
C21_Witness ==
    \E c, d \in Clients :
        /\ c # d
        /\ pc[d] \in {"http_wait", "ws_wait"}
        /\ \E i \in 1..Len(frames[c]) :
              frames[c][i] = Frame("sessionStarted", 1, "Acme / Cold call")

\* C22: the step that takes a non-final audio_stream chunk forwards it on
\* the streaming socket and writes no frame; the step that takes a final
\* chunk forwards it and waits; and when the handling of a final chunk is
\* over exactly one frame answers it, a streamResponse or an error.
C22_AudioStreamReplies ==
    [][\A c \in Clients :
          /\ Takes(c, "audio_chunk")
                => /\ wsSends' = wsSends + 1
                   /\ frames' = frames
          /\ (EndsRequest(c) /\ cur'[c].kind = "audio_final" /\ clientSock[c] = "open")
                => /\ Len(frames'[c]) = Len(frames[c]) + 1
                   /\ AppendedTypes(c) \in {{"streamResponse"}, {"error"}}
      ]_vars

\* C23: every streaming exchange terminates: a session that waits for the
\* upstream's reply on the streaming socket is eventually back in its
\* loop, with a frame written to its client for the request, whether the
\* upstream completes the turn, reports an error, goes silent or keeps
\* sending frames that are not final.
C23_ExchangeTerminates ==
    \A c \in Clients :
        (pc[c] = "ws_wait")
           ~> (/\ pc[c] = "ready"
               /\ clientSock[c] = "open" => Replies(c, cur[c].idx) # <<>>)

\* the POST returned a candidate whose finish reason reports blocking or
\* truncation
BlockedOrTruncated(r) ==
    /\ r.status = "200"
    /\ r.candidates
    /\ r.finishReason \in {"SAFETY", "RECITATION", "MAX_TOKENS"}

\* C24: a reply of the endpoint whose finish reason is SAFETY, RECITATION
\* or MAX_TOKENS, with or without usable text, never comes back from the
\* HTTP function as an error: the function returns a reply string that is
\* not empty (the model's text or a synthesized placeholder).
C24_BlockedRepliesMapped ==
    (call.fn \in {"_process_with_http", "generate_response"}
        /\ BlockedOrTruncated(call.reply))
       => /\ ~call.out.err
          /\ call.out.text > 0

\* C25: the score of every transcript and model reply is an integer in
\* [60,95]: 75, plus 5 for a transcript longer than 50 characters and 5
\* more for one longer than 100, plus min(2k, 10) for k sales keywords in
\* the transcript, plus min(p, 5) for p positive indicators in the reply,
\* clamped to [60,95].
C25_ScoreFormula ==
    call.fn = "_calculate_score" =>
        LET len == call.transcript.len
            k == Cardinality(call.transcript.words)
            p == Cardinality(call.positives)
            sum == 75 + (IF len > 50 THEN 5 ELSE 0) + (IF len > 100 THEN 5 ELSE 0)
                      + (IF 2 * k < 10 THEN 2 * k ELSE 10) + (IF p < 5 THEN p ELSE 5)
        IN /\ call.out \in 60..95
           /\ call.out = (IF sum > 95 THEN 95 ELSE IF sum < 60 THEN 60 ELSE sum)

\* a long transcript with every sales keyword and a reply with every
\* positive indicator: the increments add up to 100 and the score is 95
C25_Witness ==
    /\ call.fn = "_calculate_score"
    /\ call.transcript.len > 100
    /\ call.transcript.words = SalesKeywords
    /\ call.positives = PositiveIndicators
    /\ call.out = 95

\* the keyword groups and their suggestions, in the order of the code
ImprovementTable ==
    <<[keys |-> {"pace", "slow", "fast"},
       entry |-> "Adjust your speaking pace for better clarity"],
      [keys |-> {"confident", "conviction"},
       entry |-> "Speak with more confidence and conviction"],
      [keys |-> {"example", "specific"},
       entry |-> "Add specific examples to strengthen your message"],
      [keys |-> {"value", "benefit"},
       entry |-> "Emphasize the key benefits and value proposition"]>>

AchievementTable ==
    <<[keys |-> {"clear"}, entry |-> "Clear and articulate delivery"],
      [keys |-> {"confident"}, entry |-> "Confident speaking style"],
      [keys |-> {"good", "well"}, entry |-> "Well-structured message"],
      [keys |-> {"engaging"}, entry |-> "Engaging presentation style"]>>

\* the rows of a table whose keyword group matches the reply, in order
Matching(table, ws) == SelectSeq(table, LAMBDA row : row.keys \cap ws # {})

\* the list out is made of the first three matching rows' suggestions, or
\* is the default list when no row matches
ListFromTable(out, table, ws, default) ==
    LET rows == Matching(table, ws)
    IN  IF rows = <<>>
        THEN out = default
        ELSE /\ Len(out) = (IF Len(rows) < 3 THEN Len(rows) ELSE 3)
             /\ \A i \in 1..Len(out) : out[i] = rows[i].entry

\* C26: for every model reply the improvements and the achievements each
\* have 1 to 3 entries: the suggestions of the keyword groups that match
\* the reply, in table order, the first three of them, or the generic
\* default entries when no group matches.
C26_FeedbackLists ==
    /\ call.fn = "_extract_improvements"
          => /\ Len(call.out) \in 1..3
             /\ ListFromTable(call.out, ImprovementTable, call.reply,
                              <<"Practice varying your tone for emphasis",
                                "Focus on clear articulation of key points">>)
    /\ call.fn = "_extract_achievements"
          => /\ Len(call.out) \in 1..3
             /\ ListFromTable(call.out, AchievementTable, call.reply,
                              <<"Voice message received and processed">>)

\* a reply that matches all four improvement groups: the list has three
\* entries and the fourth suggestion is left out
C26_Witness ==
    /\ call.fn = "_extract_improvements"
    /\ Len(Matching(ImprovementTable, call.reply)) = 4
    /\ Len(call.out) = 3
    /\ call.out[3] = "Add specific examples to strengthen your message"

\* C27: progressPercent is min(messageCount * 20, 100) when the context
\* carries a message counter, and is absent (null) otherwise: when the
\* context is missing, empty, or has no messageCount.
C27_ProgressPercent ==
    call.fn = "_calculate_progress" =>
        IF call.context.given /\ call.context.count # NoCount
        THEN call.out = Value(IF call.context.count * 20 < 100
                              THEN call.context.count * 20 ELSE 100)
        ELSE call.out = Null

\* the environment has a fatal startup error
FatalStartup(e) == ~e.hasKey \/ e.portBusy \/ ~e.bindable

\* no client connection was ever accepted
NoneAccepted ==
    /\ server_stats.total_connections = 0
    /\ \A c \in Clients : pc[c] = "idle" /\ clientSock[c] = "none"

\* C28: with a missing credential or the port in use the process never
\* binds the listening transport and never accepts a client, and when it
\* has ended its exit code is 1; after a successful start the process
\* ends, after a signal, with exit code 0.
C28_ExitCodes ==
    /\ FatalStartup(call.env)
          => /\ ~listening
             /\ NoneAccepted
             /\ serverPc \in {"starting", "binding", "exited"}
             /\ serverPc = "exited" => call.exit = 1
    /\ call.exit = 1 => (FatalStartup(call.env) /\ ~listening /\ NoneAccepted)
    /\ ~FatalStartup(call.env)
          => /\ serverPc = "exited" => (call.exit = 0 /\ ~listening)
             /\ serverPc # "exited" => call.exit = NoExit

\* the process served a client, was told to stop and has ended with code 0
C28_Witness ==
    /\ serverPc = "exited"
    /\ call.exit = 0
    /\ server_stats.total_connections >= 1

\* the clients whose handle_client has registered them so far
Registered == {c \in Clients : pc[c] # "idle"}

\* no handle_client is between its registration and the end of connect(),
\* and no _cleanup_client is waiting in disconnect()
NoRegistryStepInProgress ==
    \A c \in Clients :
        pc[c] \notin {"connect_ws", "connect_setup", "connect_http", "disconnecting"}

SendFails(c) ==
    /\ \E k \in {"voice_text", "voice_audio"} : Takes(c, k)
    /\ is_connected /\ ~use_http_fallback /\ websocket # NoSocket
    /\ wsSends' = wsSends

\* C30: when the send on the streaming socket fails in the streaming state,
\* the service goes to the fallback state and the same request continues
\* on the HTTP path without an error frame; the request that waits for the
\* HTTP reply is then answered with frames of its own.
C30_SendFailureFallsBack ==
    [][\A c \in Clients :
          /\ SendFails(c)
                => /\ use_http_fallback' /\ is_connected'
                   /\ pc'[c] = "http_wait"
                   /\ cur'[c] = NextMsg(c)
                   /\ "error" \notin AppendedTypes(c)
          /\ (pc[c] = "http_wait" /\ pc'[c] = "ready" /\ clientSock[c] = "open")
                => /\ AppendedTypes(c) # {}
                   /\ \A i \in (Len(frames[c]) + 1)..Len(frames'[c]) :
                         frames'[c][i].msg = cur[c].idx]_vars

\* no message was ever written to the streaming socket, the service is in
\* the fallback state after a failed send, and the request has its reply
C30_Witness ==
    /\ use_http_fallback /\ wsSends = 0
    /\ \E c \in Clients : \E i \in 1..Len(frames[c]) :
          frames[c][i].type = "textFeedback" /\ frames[c][i].msg = 1

\* index of the first frame of the stream that ends the exchange: marked
\* turnComplete or an error; 0 when there is none
RECURSIVE FirstEnd(_, _)
FirstEnd(stream, i) ==
    IF i > Len(stream) THEN 0
    ELSE IF stream[i].kind = "error" \/ stream[i].turnComplete THEN i
    ELSE FirstEnd(stream, i + 1)

\* the parts of the frames 1..n of the stream, in arrival order
RECURSIVE PartsUpTo(_, _)
PartsUpTo(stream, n) ==
    IF n = 0 THEN <<>> ELSE PartsUpTo(stream, n - 1) \o stream[n].parts

\* the characters (bytes) of the parts of one kind, in order
RECURSIVE Joined(_, _)
Joined(parts, kind) ==
    IF parts = <<>> THEN <<>>
    ELSE (IF Head(parts).kind = kind
          THEN (IF kind = "text" THEN Head(parts).chars ELSE Head(parts).bytes)
          ELSE <<>>) \o Joined(Tail(parts), kind)

Collected(kind) ==
    Joined(PartsUpTo(call.stream, FirstEnd(call.stream, 1)), kind)

EndsWithTurnComplete ==
    /\ call.fn = "_wait_for_complete_response"
    /\ FirstEnd(call.stream, 1) > 0
    /\ call.stream[FirstEnd(call.stream, 1)].kind = "serverContent"

EndsWithError ==
    /\ call.fn = "_wait_for_complete_response"
    /\ FirstEnd(call.stream, 1) > 0
    /\ call.stream[FirstEnd(call.stream, 1)].kind = "error"

\* the audio-buffer, hasAudio and error-frame parts of the claim C31
AudioAndErrorCollected ==
    /\ EndsWithTurnComplete
          => /\ ~call.out.err
             /\ call.out.audioData.bytes = Collected("audio")
             /\ call.out.audioSize = Len(Collected("audio"))
             /\ call.out.hasAudio <=> Collected("audio") # <<>>
    /\ EndsWithError => call.out.err

\* C31 as stated: the exchange collects up to the first frame marked
\* turnComplete; the returned text is the concatenation of all text parts
\* and the audio buffer that of all audio fragments, in arrival order, with
\* nothing after that frame; hasAudio holds exactly when the buffer is not
\* empty; an upstream error frame ends the exchange with an error result.
C31_FramesCollected ==
    /\ AudioAndErrorCollected
    /\ EndsWithTurnComplete => call.out.text = Collected("text")

\* C31 amended: as above, with the returned text being the concatenation
\* of the text parts without its leading and trailing whitespace.
C31_FramesCollectedStripped ==
    /\ AudioAndErrorCollected
    /\ EndsWithTurnComplete => call.out.text = strip(Collected("text"))

\* an exchange of two frames with text and audio in both, the second
\* marked turnComplete
C31_Witness ==
    /\ EndsWithTurnComplete
    /\ FirstEnd(call.stream, 1) = 2
    /\ Len(call.out.text) = 2
    /\ call.out.audioData.bytes = <<2, 1>>

\* a reply of a retry that _retry_with_different_params accepts
Usable(r) == r.status = "200" /\ r.candidates /\ PartText(r) > 5

\* the retries made for a request whose strategies get the replies rs: up
\* to the first usable reply, all of them when there is none
RECURSIVE RetriesNeeded(_, _)
RetriesNeeded(rs, i) ==
    IF i > Len(rs) THEN Len(rs)
    ELSE IF Usable(rs[i]) THEN i ELSE RetriesNeeded(rs, i + 1)

\* C32: one request of the stateless path makes at most one initial
\* upstream call and at most three retry calls, the strategies being tried
\* in their order up to the first usable reply, and it always returns a
\* reply string that is not empty (the model's or a placeholder), never an
\* error.
C32_BoundedRetry ==
    call.fn \in {"_process_with_http", "generate_response"}
       => /\ call.out.calls <= 1 + NumStrategies
          /\ call.out.calls > 1 => call.out.calls = 1 + RetriesNeeded(call.retries, 1)
          /\ ~call.out.err
          /\ call.out.text > 0

\* the step in which client c's connect() returns failure / success
ConnectFails(c) == pc[c] = "connect_http" /\ pc'[c] = "rejected"
ConnectSucceeds(c) ==
    pc[c] \in {"connect_setup", "connect_http"} /\ pc'[c] = "ready"

\* C33: when connect() returns failure the upstream client is left
\* disconnected: is_connected is false, the fallback flag is not set and
\* no streaming socket is held open; when it returns success is_connected
\* is true.
C33_FailedConnectLeavesDisconnected ==
    [][\A c \in Clients :
          /\ ConnectFails(c)
                => /\ ~is_connected'
                   /\ ~use_http_fallback'
                   /\ websocket' \notin upOpen'
          /\ ConnectSucceeds(c) => is_connected']_vars

\* the step in which client c's handler takes a message that calls the
\* service: send_text_message, process_audio_message or send_audio_chunk
ServiceCall(c) ==
    cur'[c] # cur[c]
       /\ cur'[c].kind \in {"voice_text", "voice_audio", "audio_chunk", "audio_final"}

\* C34: while the upstream client is disconnected (is_connected false) no
\* operation of the service issues an upstream request on either
\* transport: the call returns its error result at once, nothing is
\* written to the streaming socket and no HTTP request is started.
C34_DisconnectedSendsNothing ==
    [][\A c \in Clients :
          (~is_connected /\ ServiceCall(c))
             => /\ wsSends' = wsSends
                /\ pc'[c] = "ready"]_vars

\* C35: at most one upstream streaming socket is open at any time: every
\* socket connect() has opened is the one the service holds or has been
\* closed, also after a failed handshake, a repeated connect() and
\* overlapping connect() calls.
C35_OneUpstreamSocket ==
    /\ upOpen \subseteq {websocket}
    /\ Cardinality(upOpen) <= 1

\* the step in which something is written to or read from the streaming
\* socket: a send (wsSends grows) or a handler waiting in recv()
TouchesSocket(c) == wsSends' # wsSends \/ (pc[c] # "ws_wait" /\ pc'[c] = "ws_wait")

\* C36: while the service is in the fallback state no operation writes to
\* or reads from the streaming socket, also not send_audio_chunk for an
\* audio_stream chunk after a handshake that opened the socket and was
\* not acknowledged.
C36_FallbackAvoidsSocket ==
    [][\A c \in Clients :
          (use_http_fallback /\ cur'[c] # cur[c]) => ~TouchesSocket(c)]_vars

\* C37: the reply returned for a streaming request is made only of frames
\* the upstream produced for that request: frames of a turn abandoned by a
\* timeout or an error that arrive later are not returned as (part of) the
\* reply to a later request of the same or another session.
C37_ReplyFromOwnTurn ==
    \A c \in Clients : call.reply[c].from \cap call.abandoned = {}

\* the step in which the upstream call of client c's request returns a
\* result with an error: the HTTP call fails, the streaming exchange ends
\* in an error, or the service is not connected
UpstreamFailed(c) ==
    \/ HttpReturn(c, FALSE)
    \/ WsReturn(c, ErrResult)
    \/ HandleVoice(c, "not_connected")

\* C38: textFeedback is sent and the coaching-response counters grow only
\* when the upstream call of the request returned a result without an
\* error; an error result is answered with an error frame, on the audio
\* path and on the transcript-only path of voice_data.
C38_FeedbackOnlyOnSuccess ==
    [][\A c \in Clients :
          (UpstreamFailed(c) /\ ValidVoice(cur'[c].kind) /\ c \in DOMAIN client_sessions)
             => /\ "error" \in AppendedTypes(c)
                /\ "textFeedback" \notin AppendedTypes(c)
                /\ server_stats'.total_coaching_responses
                      = server_stats.total_coaching_responses
                /\ client_sessions'[c].coaching_responses
                      = client_sessions[c].coaching_responses]_vars

\* a counter of the session of client c
SessionCounter(c, name) ==
    CASE name = "audio" -> client_sessions[c].audio_messages
      [] name = "coaching" -> client_sessions[c].coaching_responses
      [] OTHER -> client_sessions[c].message_count

\* the sum of a counter over the sessions in S
RECURSIVE SessionSum(_, _)
SessionSum(S, name) ==
    IF S = {} THEN 0
    ELSE LET c == CHOOSE x \in S : TRUE
         IN  SessionCounter(c, name) + SessionSum(S \ {c}, name)

CountersOrdered ==
    /\ \A c \in DOMAIN client_sessions :
          /\ client_sessions[c].coaching_responses <= client_sessions[c].audio_messages
          /\ client_sessions[c].audio_messages <= client_sessions[c].message_count
    /\ server_stats.total_coaching_responses <= server_stats.total_audio_messages
    /\ server_stats.total_audio_messages >= SessionSum(DOMAIN client_sessions, "audio")
    /\ server_stats.total_coaching_responses
          >= SessionSum(DOMAIN client_sessions, "coaching")
    /\ Cardinality(active_clients) <= server_stats.total_connections
    /\ server_stats.active_sessions <= server_stats.total_connections

CountersGrow ==
    /\ server_stats'.total_connections >= server_stats.total_connections
    /\ server_stats'.total_audio_messages >= server_stats.total_audio_messages
    /\ server_stats'.total_coaching_responses >= server_stats.total_coaching_responses
    /\ \A c \in DOMAIN client_sessions \cap DOMAIN client_sessions' :
          /\ client_sessions'[c].message_count >= client_sessions[c].message_count
          /\ client_sessions'[c].audio_messages >= client_sessions[c].audio_messages
          /\ client_sessions'[c].coaching_responses
                >= client_sessions[c].coaching_responses

\* C39: in every reachable state each session has coaching_responses <=
\* audio_messages <= message_count, total_coaching_responses <=
\* total_audio_messages, each global total is at least the sum of the
\* sessions' counters, the number of active clients is at most
\* total_connections, and no step decreases a counter other than
\* active_sessions.
C39_CounterOrdering == []CountersOrdered /\ [][CountersGrow]_vars

\* a session that has counted a coaching response is open while another
\* session has been removed
C39_Witness ==
    /\ \E c \in DOMAIN client_sessions : client_sessions[c].coaching_responses > 0
    /\ server_stats.total_connections > Cardinality(active_clients)
    /\ server_stats.total_audio_messages > SessionSum(DOMAIN client_sessions, "audio")

\* the scores of all transcripts and replies
Scores ==
    {calculate_score(t, p) : t \in Transcripts, p \in SUBSET PositiveIndicators}

\* C40: the score is never below the baseline 75: the adjustments only
\* add, the scores that occur are exactly the integers 75..95, and the
\* lower bound 60 of the clamp never decides the result.
C40_ScoreAtLeastBaseline ==
    /\ Scores = 75..95
    /\ call.fn = "_calculate_score" =>
          LET len == call.transcript.len
              k == Cardinality(call.transcript.words)
              p == Cardinality(call.positives)
              added == (IF len > 50 THEN 5 ELSE 0) + (IF len > 100 THEN 5 ELSE 0)
                         + Min(2 * k, 10) + Min(p, 5)
          IN  /\ added >= 0
              /\ call.out >= 75
              /\ call.out = Min(75 + added, 95)

\* a short transcript without a sales keyword and a reply without a
\* positive indicator: the score is the baseline
C40_Witness ==
    /\ call.fn = "_calculate_score"
    /\ call.transcript.len <= 50
    /\ call.transcript.words = {}
    /\ call.positives = {}
    /\ call.out = 75

====
